---------------------------- MODULE Spec2Model ----------------------------
(***************************************************************************)
(* Ask.N7 browser client.                                                  *)
(*                                                                         *)
(* Part I  - the file-processing status poller of GeneralChat.jsx and      *)
(*           chatDashboard.jsx (the two views carry the same poller code). *)
(* Part II - the session roster of GeneralChatPage and the chat controller *)
(*           of GeneralChat.jsx.                                           *)
(*                                                                         *)
(* Every HTTP request is a record in a bag of requests in flight; the      *)
(* server's answer is fixed when the request is sent and is applied when   *)
(* the response is delivered, so responses may be delivered in any order.  *)
(***************************************************************************)
EXTENDS Integers, Sequences, FiniteSets, Bags, TLC

(***************************************************************************)
(* Program constants                                                       *)
(***************************************************************************)
POLL_INTERVAL == 3000

POLL_TIMEOUT == 120000

(***************************************************************************)
(* Bounds of the model                                                     *)
(***************************************************************************)
\* Date.now() values range over T0 .. MaxTime.
MaxTime == 126001

\* HTTP requests the poller sends in one behaviour, after the mount's fetch.
MaxRequests == 4

\* The same, in the behaviours of SpecScenario.
ScenarioRequests == 6

\* The first value of Date.now(); positive, as every real clock value is, so
\* that a stored startTime is never falsy.
T0 == 1

Files == {"f1", "f2"}

\* The order in which the file list names the files.
FileOrder == <<"f1", "f2">>

Undef == "undefined"

NoFile == "-"

Statuses == {"pending", "processing", "completed", "failed"}

TimeoutText == "Processing timed out. Please try again."

(***************************************************************************)
(* Part I: state of the poller                                             *)
(***************************************************************************)
VARIABLES
    now,              \* Date.now()
    mounted,          \* the view instance is mounted
    filesData,        \* useFetch data: [loaded, processed]
    fileStatuses,     \* fileId -> {status, message, error, startTime} or NoRec
    pollIntervalsRef, \* fileId -> interval id, 0 when the file has no handle
    timers,           \* the browser's live interval timers: [id, file, due]
    net,              \* bag of requests in flight, each with its answer
    srv,              \* the backend's status of each file, as of its last answer
    listed,           \* the files the backend's file list names
    budget,           \* requests the behaviour may still send
    env,              \* the environment of the behaviour: [failures, spontaneous]
    toasts,           \* notifications shown so far, per file and kind
    pollLog           \* per file, the pollStatus calls and the answers applied

pollVars == <<now, mounted, filesData, fileStatuses, pollIntervalsRef, timers,
              net, srv, listed, budget, env, toasts, pollLog>>

\* State of Part II, declared here so that the steps of Part I can leave it alone.
VARIABLES
    sessions,         \* the page's roster: session ids, most recent first
    activeSessionId,  \* 0 for null
    chatKey,          \* key of the mounted GeneralChat instance
    locationState,    \* location.state?.question, <<>> when there is none
    pendingQuestion,  \* localStorage 'pendingQuestion', <<>> when there is none
    chat,             \* state of the mounted GeneralChat instance
    chatNet,          \* bag of chat requests and timers in flight, with closures
    srvRoster,        \* the backend's roster, most recent first
    srvMsgs,          \* the backend's transcript of each session
    srvProcessed,     \* the number of processed files in the backend's file list
    alert,            \* the alert the last step has shown, "" for none
    userSteps         \* user steps the behaviour may still take

chatVars == <<sessions, activeSessionId, chatKey, locationState, pendingQuestion,
              chat, chatNet, srvRoster, srvMsgs, srvProcessed, alert, userSteps>>

vars == <<pollVars, chatVars>>

frameVars == <<mounted, listed, env, chatVars>>

\* A file with no tracked record: prev[fileId] || {} has every field undefined.
NoRec == [status |-> "absent", message |-> Undef, error |-> Undef, startTime |-> 0]

\* The success and error notifications (the info notification of
\* handleProcessFile is not logged).
ToastKinds == {"Complete", "CompleteDirect", "Timeout",
               "FailedServerError", "FailedFallback",
               "ProcessingFailedDetail", "ProcessingFailedFallback",
               "Deleted", "DeleteFailed"}

\* A request in flight with its answer.  kind: files | sweep | process | poll
\* | delete;
\* rest: the files a sweep has still to query; ok: FALSE for a request that
\* fails; status, message, error: the answer's data (error: the detail of a
\* failed request); files, processed: the file list.
Req(k, f, r, ok, st, msg, err) ==
    [kind |-> k, file |-> f, rest |-> r, ok |-> ok, status |-> st,
     message |-> msg, error |-> err, files |-> {}, processed |-> {}]

FilesReq(ok, fs, pr) ==
    [kind |-> "files", file |-> NoFile, rest |-> <<>>, ok |-> ok, status |-> Undef,
     message |-> Undef, error |-> Undef, files |-> fs, processed |-> pr]

Send(bag, r) == bag (+) SetToBag({r})

Receive(bag, r) == bag (-) SetToBag({r})

Toast(t, f, kind) == [t EXCEPT ![f][kind] = @ + 1]

\* pollLog is the history of the poller for each file:
\*   "process"   handleProcessFile is called for the file,
\*   "started"   its process request is answered and polling starts,
\*   "direct"    its process request is answered completed,
\*   "rejected"  its process request fails or is answered anything else,
\*   "resumed"   the load-time sweep finds the file processing and polls it,
\*   "sent"      pollStatus sends a status request,
\*   "timeout"   a poll answer is applied and the timeout overrides it,
\*   a status    a poll answer with this status is applied,
\*   "delete"    handleFileDelete is called for the file,
\*   "deleted"   its delete request is answered and the file is untracked.
Log(l, f, e) == [l EXCEPT ![f] = Append(@, e)]

(***************************************************************************)
(* The backend, as the client sees it.  A file is queued (pending), being  *)
(* processed, completed or failed; a queued or started file may have moved *)
(* on by the time of the next request about it, a completed or failed one  *)
(* stays so until processing is requested again; a request about a file   *)
(* that the backend no longer lists fails.  Each operator gives the pairs  *)
(* <<statuses after the request, the request with its answer>>.            *)
(***************************************************************************)
ErrorsOf(st) == IF st = "failed" THEN {Undef, "server error"} ELSE {Undef}

Evolve(st) ==
    IF st = "processing" THEN {"processing", "completed", "failed"}
    ELSE IF st = "pending" /\ env.spontaneous THEN Statuses
    ELSE {st}

\* GET /api/document/process/status/{fileId}
StatusExchange(k, f, r) ==
    IF f \notin listed
    THEN {<<srv, Req(k, f, r, FALSE, Undef, Undef, Undef)>>}
    ELSE UNION {{<<[srv EXCEPT ![f] = st], Req(k, f, r, TRUE, st, Undef, e)>> :
                    e \in ErrorsOf(st)} : st \in Evolve(srv[f])}
            \cup {<<srv, Req(k, f, r, FALSE, Undef, Undef, Undef)>> :
                      b \in {TRUE} \cap {env.failures}}

\* GET /api/document/files
FilesExchange ==
    {<<s, FilesReq(TRUE, listed, {f \in listed : s[f] = "completed"})>> :
        s \in {t \in [Files -> Statuses] :
                 \A f \in Files : t[f] \in (IF f \in listed THEN Evolve(srv[f])
                                                         ELSE {srv[f]})}}
        \cup {<<srv, FilesReq(FALSE, {}, {})>> : b \in {TRUE} \cap {env.failures}}

\* GET /api/document/process/{fileId}
ProcessExchange(f) ==
    IF f \notin listed
    THEN {<<srv, Req("process", f, <<>>, FALSE, Undef, Undef, "detail")>>}
    ELSE
    {<<srv, Req("process", f, <<>>, FALSE, Undef, Undef, d)>> :
        d \in (IF env.failures THEN {Undef, "detail"} ELSE {})}
    \cup {<<[srv EXCEPT ![f] = "pending"],
            Req("process", f, <<>>, TRUE, "pending", Undef, Undef)>>}
    \cup {<<[srv EXCEPT ![f] = "processing"],
            Req("process", f, <<>>, TRUE, st, Undef, Undef)>> :
               st \in {"processing", "started"}}
    \cup {<<[srv EXCEPT ![f] = "completed"],
            Req("process", f, <<>>, TRUE, "completed", "server message", Undef)>>}
    \cup {<<[srv EXCEPT ![f] = "failed"],
            Req("process", f, <<>>, TRUE, "failed", Undef, "server error")>>}

\* The request x[2] is sent: the backend is then as x[1] says.
Exchange(bag, x) ==
    /\ budget > 0
    /\ budget' = budget - 1
    /\ srv' = x[1]
    /\ net' = Send(bag, x[2])

NoExchange(bag) ==
    /\ net' = bag
    /\ UNCHANGED <<srv, budget>>

(***************************************************************************)
(* stopPolling / startPolling on ts = [ref, live]: the handles of the ref  *)
(* and the browser's live intervals.  setInterval returns an id that no    *)
(* live interval and no handle of the ref carries.                         *)
(***************************************************************************)
TS == [ref |-> pollIntervalsRef, live |-> timers]

FreshId(ts) ==
    LET used == {t.id : t \in ts.live} \cup {ts.ref[f] : f \in Files}
    IN  CHOOSE i \in 1..(Cardinality(used) + 1) :
            /\ i \notin used
            /\ \A j \in 1..(i - 1) : j \in used

\* stopPolling that clears every interval of the view.
stopPollingAll(ts, f) ==
    IF ts.ref[f] # 0
    THEN [ts EXCEPT !.live = {}, !.ref[f] = 0]
    ELSE ts

stopPolling(ts, f) ==
    IF ts.ref[f] # 0
    THEN [ts EXCEPT !.live = {t \in @ : t.id # ts.ref[f]}, !.ref[f] = 0]
    ELSE ts

setInterval(ts, f, t) ==
    LET id == FreshId(ts)
    IN  [ts EXCEPT !.live = @ \cup {[id |-> id, file |-> f, due |-> t + POLL_INTERVAL]},
                   !.ref[f] = id]

\* startPolling without its first statement.
startPollingKeepsOld(ts, f, t) == setInterval(ts, f, t)

startPolling(ts, f, t) == setInterval(stopPolling(ts, f), f, t)

SetTS(ts) ==
    /\ pollIntervalsRef' = ts.ref
    /\ timers' = ts.live

LiveTimers(f) == {t \in timers : t.file = f}

(***************************************************************************)
(* The state updater of pollStatus: what one status response does to the   *)
(* file's record, and the side effects it asks for.                        *)
(***************************************************************************)
TimedOut(startTime, t) == t - startTime > POLL_TIMEOUT

\* pollStatus with the terminal statuses handled before the timeout.
pollUpdateServerFirst(prev, data, t) ==
    LET startTime == IF prev.startTime # 0 THEN prev.startTime ELSE t
        wasProcessing == prev.status = "processing"
    IN  IF TimedOut(startTime, t) /\ data.status \notin {"completed", "failed"}
        THEN [rec |-> [status |-> "failed", message |-> data.message,
                       error |-> TimeoutText, startTime |-> startTime],
              stop |-> TRUE, refetch |-> FALSE, toast |-> "Timeout"]
        ELSE [rec |-> [status |-> data.status, message |-> data.message,
                       error |-> data.error, startTime |-> startTime],
              stop |-> data.status \in {"completed", "failed"},
              refetch |-> data.status = "completed",
              toast |-> IF data.status = "completed" /\ wasProcessing
                            THEN "Complete"
                        ELSE IF data.status = "failed" /\ wasProcessing
                            THEN (IF data.error # Undef THEN "FailedServerError"
                                                        ELSE "FailedFallback")
                        ELSE "none"]

\* pollStatus without its wasProcessing tests.
pollUpdateAlwaysNotifies(prev, data, t) ==
    LET startTime == IF prev.startTime # 0 THEN prev.startTime ELSE t
    IN  IF TimedOut(startTime, t)
        THEN [rec |-> [status |-> "failed", message |-> data.message,
                       error |-> TimeoutText, startTime |-> startTime],
              stop |-> TRUE, refetch |-> FALSE, toast |-> "Timeout"]
        ELSE [rec |-> [status |-> data.status, message |-> data.message,
                       error |-> data.error, startTime |-> startTime],
              stop |-> data.status \in {"completed", "failed"},
              refetch |-> data.status = "completed",
              toast |-> IF data.status = "completed"
                            THEN "Complete"
                        ELSE IF data.status = "failed"
                            THEN (IF data.error # Undef THEN "FailedServerError"
                                                        ELSE "FailedFallback")
                        ELSE "none"]

\* pollStatus that stops the timer on failed only.
pollUpdateKeepsPolling(prev, data, t) ==
    LET startTime == IF prev.startTime # 0 THEN prev.startTime ELSE t
        wasProcessing == prev.status = "processing"
    IN  IF TimedOut(startTime, t)
        THEN [rec |-> [status |-> "failed", message |-> data.message,
                       error |-> TimeoutText, startTime |-> startTime],
              stop |-> TRUE, refetch |-> FALSE, toast |-> "Timeout"]
        ELSE [rec |-> [status |-> data.status, message |-> data.message,
                       error |-> data.error, startTime |-> startTime],
              stop |-> data.status = "failed",
              refetch |-> data.status = "completed",
              toast |-> IF data.status = "completed" /\ wasProcessing
                            THEN "Complete"
                        ELSE IF data.status = "failed" /\ wasProcessing
                            THEN (IF data.error # Undef THEN "FailedServerError"
                                                        ELSE "FailedFallback")
                        ELSE "none"]

\* pollStatus whose failure notification ignores statusData.error.
pollUpdateGenericError(prev, data, t) ==
    LET startTime == IF prev.startTime # 0 THEN prev.startTime ELSE t
        wasProcessing == prev.status = "processing"
    IN  IF TimedOut(startTime, t)
        THEN [rec |-> [status |-> "failed", message |-> data.message,
                       error |-> TimeoutText, startTime |-> startTime],
              stop |-> TRUE, refetch |-> FALSE, toast |-> "Timeout"]
        ELSE [rec |-> [status |-> data.status, message |-> data.message,
                       error |-> data.error, startTime |-> startTime],
              stop |-> data.status \in {"completed", "failed"},
              refetch |-> data.status = "completed",
              toast |-> IF data.status = "completed" /\ wasProcessing
                            THEN "Complete"
                        ELSE IF data.status = "failed" /\ wasProcessing
                            THEN "FailedFallback"
                        ELSE "none"]

pollUpdate(prev, data, t) ==
    LET startTime == IF prev.startTime # 0 THEN prev.startTime ELSE t
        wasProcessing == prev.status = "processing"
    IN  IF TimedOut(startTime, t)
        THEN [rec |-> [status |-> "failed", message |-> data.message,
                       error |-> TimeoutText, startTime |-> startTime],
              stop |-> TRUE, refetch |-> FALSE, toast |-> "Timeout"]
        ELSE [rec |-> [status |-> data.status, message |-> data.message,
                       error |-> data.error, startTime |-> startTime],
              stop |-> data.status \in {"completed", "failed"},
              refetch |-> data.status = "completed",
              toast |-> IF data.status = "completed" /\ wasProcessing
                            THEN "Complete"
                        ELSE IF data.status = "failed" /\ wasProcessing
                            THEN (IF data.error # Undef THEN "FailedServerError"
                                                        ELSE "FailedFallback")
                        ELSE "none"]

(***************************************************************************)
(* Initial state: the view has mounted and its mount effect has called     *)
(* fetchFiles(); nothing is tracked and no timer runs.                     *)
(***************************************************************************)
PollInitWith(fs, n, e) ==
    /\ env = e
    /\ pollLog = [f \in Files |-> <<>>]
    /\ now = T0
    /\ mounted = TRUE
    /\ filesData = [loaded |-> FALSE, files |-> {}, processed |-> {}]
    /\ fileStatuses = [f \in Files |-> NoRec]
    /\ pollIntervalsRef = [f \in Files |-> 0]
    /\ timers = {}
    /\ listed = fs
    /\ srv \in {s \in [Files -> Statuses] : \A f \in Files \ fs : s[f] = "pending"}
    /\ net \in {SetToBag({FilesReq(TRUE, fs, {f \in fs : srv[f] = "completed"})})}
                \cup {SetToBag({FilesReq(FALSE, {}, {})}) : b \in {TRUE} \cap {e.failures}}
    /\ budget = n
    /\ toasts = [f \in Files |-> [k \in ToastKinds |-> 0]]

(***************************************************************************)
(* The file list arrives (useFetch) and, when it is applied, the effect    *)
(* checkInitialStatuses starts its sweep over the unprocessed files: it    *)
(* queries them one after the other, in the order of the list.             *)
(***************************************************************************)
\* checkInitialStatuses without its test of the processed flag.
UnprocessedAll(fs, processed) ==
    SelectSeq(FileOrder, LAMBDA f : f \in fs)

Unprocessed(fs, processed) ==
    SelectSeq(FileOrder, LAMBDA f : f \in fs /\ f \notin processed)

FilesResponse(r) ==
    /\ r.kind = "files"
    /\ IF r.ok /\ mounted
       THEN /\ filesData' = [loaded |-> TRUE, files |-> r.files, processed |-> r.processed]
            /\ LET allFileIds == Unprocessed(r.files, r.processed)
               IN  IF allFileIds = <<>>
                   THEN NoExchange(Receive(net, r))
                   ELSE \E x \in StatusExchange("sweep", Head(allFileIds), Tail(allFileIds)) :
                            Exchange(Receive(net, r), x)
       ELSE /\ filesData' = filesData
            /\ NoExchange(Receive(net, r))
    /\ UNCHANGED <<now, fileStatuses, pollIntervalsRef, timers, toasts, pollLog, frameVars>>

\* One answer of the sweep: a file found processing is tracked from now on and
\* polled; then the sweep queries the next file of its list.
SweepResponse(r) ==
    /\ r.kind = "sweep"
    /\ LET hit == r.ok /\ r.status = "processing"
       IN  /\ fileStatuses' =
                 IF hit /\ mounted
                 THEN [fileStatuses EXCEPT ![r.file] =
                          [status |-> r.status, message |-> r.message,
                           error |-> r.error, startTime |-> now]]
                 ELSE fileStatuses
           /\ SetTS(IF hit THEN startPolling(TS, r.file, now) ELSE TS)
           /\ pollLog' = IF hit THEN Log(pollLog, r.file, "resumed") ELSE pollLog
    /\ IF r.rest = <<>>
       THEN NoExchange(Receive(net, r))
       ELSE \E x \in StatusExchange("sweep", Head(r.rest), Tail(r.rest)) :
                Exchange(Receive(net, r), x)
    /\ UNCHANGED <<now, filesData, toasts, frameVars>>

(***************************************************************************)
(* handleProcessFile (GeneralChat) / handleFileProcess (ChatDashboard), up *)
(* to its await: the dashboard offers the button for a listed file that is *)
(* neither processed nor displayed as processing or completed.             *)
(***************************************************************************)
DisplayStatus(f) ==
    IF fileStatuses[f] # NoRec THEN fileStatuses[f].status
    ELSE IF f \in filesData.processed THEN "completed" ELSE "pending"

CanProcess(f) ==
    /\ mounted
    /\ filesData.loaded
    /\ f \in filesData.files
    /\ f \notin filesData.processed
    /\ DisplayStatus(f) \notin {"processing", "completed"}

ProcessFile(f) ==
    /\ CanProcess(f)
    /\ fileStatuses' = [fileStatuses EXCEPT ![f] =
          [status |-> "processing", message |-> "Starting processing...",
           error |-> Undef, startTime |-> now]]
    /\ pollLog' = Log(pollLog, f, "process")
    /\ \E x \in ProcessExchange(f) : Exchange(net, x)
    /\ UNCHANGED <<now, filesData, pollIntervalsRef, timers, toasts, frameVars>>

\* handleProcessFile whose catch block ignores error.response.data.detail.
processResultFallbackOnly(prev, r) ==
    IF ~r.ok
    THEN [status |-> "failed", message |-> Undef,
          error |-> "Failed to start processing", startTime |-> 0]
    ELSE IF r.status = "completed"
    THEN [status |-> r.status, message |-> r.message, error |-> r.error,
          startTime |-> prev.startTime]
    ELSE IF r.status \in {"processing", "started", "pending"}
    THEN [status |-> "processing",
          message |-> IF r.message # Undef THEN r.message ELSE "Processing document...",
          error |-> r.error, startTime |-> prev.startTime]
    ELSE prev

\* handleProcessFile that stores the answer without the startTime of the record.
processResultDropsStartTime(prev, r) ==
    IF ~r.ok
    THEN [status |-> "failed", message |-> Undef,
          error |-> IF r.error # Undef THEN r.error ELSE "Failed to start processing",
          startTime |-> 0]
    ELSE IF r.status = "completed"
    THEN [status |-> r.status, message |-> r.message, error |-> r.error,
          startTime |-> 0]
    ELSE IF r.status \in {"processing", "started", "pending"}
    THEN [status |-> "processing",
          message |-> IF r.message # Undef THEN r.message ELSE "Processing document...",
          error |-> r.error, startTime |-> 0]
    ELSE prev

\* The rest of handleProcessFile, run when the process endpoint has answered.
\* A state setter of an unmounted view does nothing; timers, requests and
\* notifications do not depend on the view being mounted.
processResult(prev, r) ==
    IF ~r.ok
    THEN [status |-> "failed", message |-> Undef,
          error |-> IF r.error # Undef THEN r.error ELSE "Failed to start processing",
          startTime |-> 0]
    ELSE IF r.status = "completed"
    THEN [status |-> r.status, message |-> r.message, error |-> r.error,
          startTime |-> prev.startTime]
    ELSE IF r.status \in {"processing", "started", "pending"}
    THEN [status |-> "processing",
          message |-> IF r.message # Undef THEN r.message ELSE "Processing document...",
          error |-> r.error, startTime |-> prev.startTime]
    ELSE prev

ProcessResponse(r) ==
    /\ r.kind = "process"
    /\ LET f == r.file
           polls == r.ok /\ r.status \in {"processing", "started", "pending"}
           done == r.ok /\ r.status = "completed"
       IN  /\ fileStatuses' = IF mounted
                              THEN [fileStatuses EXCEPT ![f] = processResult(@, r)]
                              ELSE fileStatuses
           /\ SetTS(IF polls THEN startPolling(TS, f, now) ELSE TS)
           /\ toasts' = IF done THEN Toast(toasts, f, "CompleteDirect")
                        ELSE IF ~r.ok
                        THEN Toast(toasts, f, IF r.error # Undef
                                              THEN "ProcessingFailedDetail"
                                              ELSE "ProcessingFailedFallback")
                        ELSE toasts
           /\ pollLog' = IF polls THEN Log(Log(pollLog, f, "started"), f, "sent")
                         ELSE Log(pollLog, f, IF done THEN "direct" ELSE "rejected")
           /\ IF polls
              THEN \E x \in StatusExchange("poll", f, <<>>) : Exchange(Receive(net, r), x)
              ELSE IF done
              THEN \E x \in FilesExchange : Exchange(Receive(net, r), x)
              ELSE NoExchange(Receive(net, r))
    /\ UNCHANGED <<now, filesData, frameVars>>

(***************************************************************************)
(* A tick of a live interval timer calls pollStatus, which sends a status  *)
(* request.                                                                *)
(***************************************************************************)
Tick(t) ==
    /\ t \in timers
    /\ t.due = now
    /\ timers' = (timers \ {t}) \cup {[t EXCEPT !.due = @ + POLL_INTERVAL]}
    /\ pollLog' = Log(pollLog, t.file, "sent")
    /\ \E x \in StatusExchange("poll", t.file, <<>>) : Exchange(net, x)
    /\ UNCHANGED <<now, filesData, fileStatuses, pollIntervalsRef, toasts, frameVars>>

\* pollStatus whose catch block stops the polling of the file.
PollResponseStopsOnFailure(r) ==
    /\ r.kind = "poll"
    /\ IF r.ok /\ mounted
       THEN LET f == r.file
                u == pollUpdate(fileStatuses[f], r, now)
            IN  /\ fileStatuses' = [fileStatuses EXCEPT ![f] = u.rec]
                /\ SetTS(IF u.stop THEN stopPolling(TS, f) ELSE TS)
                /\ toasts' = IF u.toast # "none" THEN Toast(toasts, f, u.toast)
                                                 ELSE toasts
                /\ pollLog' = Log(pollLog, f, IF u.toast = "Timeout" THEN "timeout"
                                                                     ELSE r.status)
                /\ IF u.refetch
                   THEN \E x \in FilesExchange : Exchange(Receive(net, r), x)
                   ELSE NoExchange(Receive(net, r))
       ELSE /\ NoExchange(Receive(net, r))
            /\ SetTS(stopPolling(TS, r.file))
            /\ UNCHANGED <<fileStatuses, toasts, pollLog>>
    /\ UNCHANGED <<now, filesData, frameVars>>

\* pollStatus after its await: a transport failure is swallowed; an answer is
\* handed to the state updater, which also stops the timer, notifies and
\* refetches the file list.
PollResponse(r) ==
    /\ r.kind = "poll"
    /\ IF r.ok /\ mounted
       THEN LET f == r.file
                u == pollUpdate(fileStatuses[f], r, now)
            IN  /\ fileStatuses' = [fileStatuses EXCEPT ![f] = u.rec]
                /\ SetTS(IF u.stop THEN stopPolling(TS, f) ELSE TS)
                /\ toasts' = IF u.toast # "none" THEN Toast(toasts, f, u.toast)
                                                 ELSE toasts
                /\ pollLog' = Log(pollLog, f, IF u.toast = "Timeout" THEN "timeout"
                                                                     ELSE r.status)
                /\ IF u.refetch
                   THEN \E x \in FilesExchange : Exchange(Receive(net, r), x)
                   ELSE NoExchange(Receive(net, r))
       ELSE /\ NoExchange(Receive(net, r))
            /\ UNCHANGED <<fileStatuses, pollIntervalsRef, timers, toasts, pollLog>>
    /\ UNCHANGED <<now, filesData, frameVars>>

Deliver ==
    \E r \in BagToSet(net) :
        \/ FilesResponse(r)
        \/ SweepResponse(r)
        \/ ProcessResponse(r)
        \/ PollResponse(r)

(***************************************************************************)
(* Time passes.  A live interval fires every POLL_INTERVAL, so the clock   *)
(* never passes the due time of a live timer; with no live timer the model *)
(* lets time pass in steps of POLL_TIMEOUT, and only while a start time is *)
(* tracked (nothing else reads the clock).                                 *)
(***************************************************************************)
AdvanceTime ==
    /\ timers # {} \/ \E f \in Files : fileStatuses[f].startTime # 0
    /\ \E d \in (IF timers = {} THEN {POLL_TIMEOUT} ELSE {POLL_INTERVAL}) :
          /\ now + d <= MaxTime
          /\ \A t \in timers : now + d <= t.due
          /\ now' = now + d
    /\ UNCHANGED <<filesData, fileStatuses, pollIntervalsRef, timers,
                   net, srv, budget, toasts, pollLog, frameVars>>

PollNext ==
    \/ Deliver
    \/ \E f \in Files : ProcessFile(f)
    \/ \E t \in timers : Tick(t)
    \/ AdvanceTime

(***************************************************************************)
(* handleFileDelete of ChatDashboard.  The delete button is offered for    *)
(* every file of the list; the backend removes the file when it serves the *)
(* request.                                                                *)
(***************************************************************************)
\* HTTP requests the dashboard sends in the behaviours of SpecDelete.
DeleteRequests == 4

\* DELETE /api/document/file/{fileId}
DeleteExchange(f) ==
    IF f \in listed
    THEN {<<listed \ {f}, Req("delete", f, <<>>, TRUE, Undef, Undef, Undef)>>}
    ELSE {<<listed, Req("delete", f, <<>>, FALSE, Undef, Undef, "detail")>>}

\* handleFileDelete up to its await.
DeleteFile(f) ==
    /\ mounted
    /\ filesData.loaded
    /\ f \in filesData.files
    /\ \E x \in DeleteExchange(f) :
          /\ listed' = x[1]
          /\ Exchange(net, <<srv, x[2]>>)
    /\ pollLog' = Log(pollLog, f, "delete")
    /\ UNCHANGED <<now, mounted, filesData, fileStatuses, pollIntervalsRef, timers,
                   toasts, env, chatVars>>

\* handleFileDelete after its await: stopPolling, the record of the file is
\* removed, fetchData is called; the catch block shows the failure.
DeleteFileResponse(r) ==
    /\ r.kind = "delete"
    /\ IF r.ok
       THEN /\ SetTS(stopPolling(TS, r.file))
            /\ fileStatuses' = IF mounted THEN [fileStatuses EXCEPT ![r.file] = NoRec]
                                          ELSE fileStatuses
            /\ toasts' = Toast(toasts, r.file, "Deleted")
            /\ pollLog' = Log(pollLog, r.file, "deleted")
            /\ \E x \in FilesExchange : Exchange(Receive(net, r), x)
       ELSE /\ toasts' = Toast(toasts, r.file, "DeleteFailed")
            /\ NoExchange(Receive(net, r))
            /\ UNCHANGED <<fileStatuses, pollIntervalsRef, timers, pollLog>>
    /\ UNCHANGED <<now, filesData, frameVars>>

DeleteNext ==
    \/ PollNext
    \/ \E f \in Files : DeleteFile(f)
    \/ \E r \in BagToSet(net) : DeleteFileResponse(r)

(***************************************************************************)
(* Part II: the session roster of GeneralChatPage and the chat controller  *)
(* of GeneralChat.  The page renders one GeneralChat instance at a time,   *)
(* keyed by chatKey: a new key unmounts the instance and mounts a fresh    *)
(* one, and the state setters of an unmounted instance do nothing.         *)
(***************************************************************************)
\* Sessions the backend creates in one behaviour.
MaxSessions == 2

\* What the user does in one behaviour: typing, submitting, storing a question.
MaxUserSteps == 1

SessionIds == 1..MaxSessions

\* Texts are sequences of characters; <<>> is the empty string.
Blank == " "

RawTexts == {<<Blank>>, <<"h">>, <<Blank, "h", Blank>>}

NoDocsAlert == "Please add at least one document to the knowledge base first."

EmptyAlert == "Please enter a question."

CreateFailedAlert == "Failed to create chat session."

Fallback == <<"An error occurred. Please try again.">>

Detail == <<"Model unavailable">>

UserMsg(text) == [message |-> text, is_user_message |-> TRUE]

AssistantMsg(text) == [message |-> text, is_user_message |-> FALSE]

ReplyMsg == AssistantMsg(<<"reply">>)

\* String.prototype.trim on a text.
RECURSIVE TrimLeft(_)
TrimLeft(t) == IF t # <<>> /\ Head(t) = Blank THEN TrimLeft(Tail(t)) ELSE t

RECURSIVE TrimRight(_)
TrimRight(t) ==
    IF t # <<>> /\ t[Len(t)] = Blank THEN TrimRight(SubSeq(t, 1, Len(t) - 1)) ELSE t

Trim(t) == TrimRight(TrimLeft(t))

\* A fresh instance: useState initial values, the ref unset; useFetch reports
\* the file list as loading until its first answer.
NewInstance(key) ==
    [key |-> key, messages |-> <<>>, question |-> <<>>, isLoading |-> FALSE,
     isLoadingMessages |-> FALSE, hasHandledPendingRef |-> FALSE,
     filesIsLoading |-> TRUE, processedFiles |-> 0,
     scheduled |-> 0, skipped |-> FALSE]

\* A request or timer in flight.  inst: the instance whose closure continues
\* when it completes; sessionId, msgs, question, processedFiles, loc: what that
\* closure has captured; target: the session the request is about; base: the
\* length of the session's transcript when a send is posted; ok, detail,
\* roster: the answer.
BaseReq ==
    [kind |-> "none", inst |-> 0, sessionId |-> 0, target |-> 0, text |-> <<>>, msgs |-> <<>>,
     question |-> <<>>, processedFiles |-> 0, loc |-> <<>>, onDemand |-> FALSE,
     base |-> 0, ok |-> TRUE, detail |-> <<>>, roster |-> <<>>]

ChatRequests(bag) == {r \in BagToSet(bag) : r.kind # "deferred"}

(***************************************************************************)
(* The backend of the chat, as the client sees it: the answer of a request *)
(* is fixed when the request is sent.                                      *)
(***************************************************************************)
\* GET /api/general-chat/sessions, sent by a fetchSessions whose closure has
\* captured activeSessionId a and location.state l.
SessionsAnswers(a, l) ==
    {[BaseReq EXCEPT !.kind = "sessions", !.sessionId = a, !.loc = l, !.roster = srvRoster],
     [BaseReq EXCEPT !.kind = "sessions", !.sessionId = a, !.loc = l, !.ok = FALSE]}

\* A message of a transcript as the backend sends it.
ServerMsg(m) == [content |-> m.message, is_user_message |-> m.is_user_message]

ServerTranscript(ms) == [i \in DOMAIN ms |-> ServerMsg(ms[i])]

\* loadSessionMessages: sessionData.messages.map(...).
formattedMessages(ms) ==
    [i \in DOMAIN ms |-> [message |-> ms[i].content,
                          is_user_message |-> ms[i].is_user_message]]

\* GET /api/general-chat/sessions/{id}, msgs being the backend's transcripts
\* when the request is sent: the answer is the present transcript or, while a
\* send to the session is being served, one that lacks some of its messages.
HistoryAnswers(k, id, bag, msgs) ==
    LET lows == {r.base : r \in {q \in BagToSet(bag) : q.kind = "send" /\ q.target = id /\ q.ok}}
        lens == {Len(msgs[id])} \cup UNION {n..Len(msgs[id]) : n \in lows}
    IN  {[BaseReq EXCEPT !.kind = "history", !.inst = k, !.target = id,
                         !.msgs = ServerTranscript(SubSeq(msgs[id], 1, n))] : n \in lens}
        \cup {[BaseReq EXCEPT !.kind = "history", !.inst = k, !.target = id, !.ok = FALSE]}

\* GET /api/document/files of the instance k: the number of processed files.
ChatFilesAnswers(k) ==
    {[BaseReq EXCEPT !.kind = "files", !.inst = k, !.processedFiles = srvProcessed]}

(***************************************************************************)
(* Rendering.  Every action that changes the state of the page or of the   *)
(* mounted instance re-renders GeneralChat; handleSubmit is a new function *)
(* on every render, so the effect of the deferred question runs after      *)
(* every render.  v = [chat, loc, pend, net] is the state a render shows.  *)
(***************************************************************************)
\* The effect without its hasHandledPendingRef test.
PendingEffectUnguarded(v, sid) ==
    LET questionToAsk == IF v.loc # <<>> THEN v.loc ELSE v.pend
    IN  IF v.chat.filesIsLoading \/ questionToAsk = <<>>
        THEN v
        ELSE [chat |-> [v.chat EXCEPT !.hasHandledPendingRef = TRUE,
                                      !.scheduled = @ + 1],
              loc |-> <<>>,
              pend |-> <<>>,
              net |-> Send(v.net, [BaseReq EXCEPT !.kind = "deferred",
                                      !.inst = v.chat.key, !.sessionId = sid,
                                      !.text = questionToAsk,
                                      !.msgs = v.chat.messages,
                                      !.question = v.chat.question,
                                      !.processedFiles = v.chat.processedFiles,
                                      !.loc = <<>>])]

\* The effect without its filesIsLoading test.
PendingEffectBeforeLoad(v, sid) ==
    LET questionToAsk == IF v.loc # <<>> THEN v.loc ELSE v.pend
    IN  IF v.chat.hasHandledPendingRef
        THEN [v EXCEPT !.chat.skipped = @ \/ questionToAsk # <<>>]
        ELSE IF questionToAsk = <<>>
        THEN v
        ELSE [chat |-> [v.chat EXCEPT !.hasHandledPendingRef = TRUE,
                                      !.scheduled = @ + 1],
              loc |-> <<>>,
              pend |-> <<>>,
              net |-> Send(v.net, [BaseReq EXCEPT !.kind = "deferred",
                                      !.inst = v.chat.key, !.sessionId = sid,
                                      !.text = questionToAsk,
                                      !.msgs = v.chat.messages,
                                      !.question = v.chat.question,
                                      !.processedFiles = v.chat.processedFiles,
                                      !.loc = <<>>])]

\* The effect "Handle pending question from landing page", run for the render
\* that shows v with the prop sessionId = sid.  It schedules handleSubmit of
\* this render after 100 ms.
PendingEffect(v, sid) ==
    LET questionToAsk == IF v.loc # <<>> THEN v.loc ELSE v.pend
    IN  IF v.chat.filesIsLoading
        THEN v
        ELSE IF v.chat.hasHandledPendingRef
        THEN [v EXCEPT !.chat.skipped = @ \/ questionToAsk # <<>>]
        ELSE IF questionToAsk = <<>>
        THEN v
        ELSE [chat |-> [v.chat EXCEPT !.hasHandledPendingRef = TRUE,
                                      !.scheduled = @ + 1],
              loc |-> <<>>,
              pend |-> <<>>,
              net |-> Send(v.net, [BaseReq EXCEPT !.kind = "deferred",
                                      !.inst = v.chat.key, !.sessionId = sid,
                                      !.text = questionToAsk,
                                      !.msgs = v.chat.messages,
                                      !.question = v.chat.question,
                                      !.processedFiles = v.chat.processedFiles,
                                      !.loc = <<>>])]

View(c, bag) == [chat |-> c, loc |-> locationState, pend |-> pendingQuestion, net |-> bag]

Render(v, sid) ==
    LET e == PendingEffect(v, sid)
    IN  /\ chat' = e.chat
        /\ locationState' = e.loc
        /\ pendingQuestion' = e.pend
        /\ chatNet' = e.net

\* Nothing of the page or of the instance changes: no render.
NoRender(bag) ==
    /\ chatNet' = bag
    /\ UNCHANGED <<chat, locationState, pendingQuestion>>

\* The effect "Load messages from session when sessionId changes" of the
\* instance c, run when it mounts or when its prop sessionId becomes sid.
LoadEffect(c, sid, bag, msgs) ==
    IF sid = 0
    THEN {[chat |-> [c EXCEPT !.messages = <<>>], net |-> bag]}
    ELSE {[chat |-> [c EXCEPT !.isLoadingMessages = TRUE], net |-> Send(bag, h)] :
             h \in HistoryAnswers(c.key, sid, bag, msgs)}

\* A new key mounts a fresh instance: its mount effects fetch the file list
\* and load the messages of sid.
Mount(key, sid, bag, msgs) ==
    UNION {LoadEffect(NewInstance(key), sid, Send(bag, f), msgs) : f \in ChatFilesAnswers(key)}

(***************************************************************************)
(* handleSubmit                                                            *)
(***************************************************************************)
\* finalQuestion without trim().
finalQuestionUntrimmed(question_p, question) ==
    IF question_p # <<>> THEN question_p ELSE question

finalQuestion(question_p, question) ==
    IF Trim(question_p) # <<>> THEN Trim(question_p) ELSE Trim(question)

\* handleSubmit without its first test.
handleSubmitStepNoFileTest(activeFilesCount, question_p, question, sessionId) ==
    IF finalQuestion(question_p, question) = <<>> THEN "alertEmpty"
    ELSE IF sessionId = 0 THEN "create"
    ELSE "send"

\* What handleSubmit does up to its first await.
handleSubmitStep(activeFilesCount, question_p, question, sessionId) ==
    IF activeFilesCount = 0 THEN "alertNoDocs"
    ELSE IF finalQuestion(question_p, question) = <<>> THEN "alertEmpty"
    ELSE IF sessionId = 0 THEN "create"
    ELSE "send"

\* The closure of the handleSubmit that the present render creates.
Closure ==
    [inst |-> chat.key, sessionId |-> activeSessionId, msgs |-> chat.messages,
     question |-> chat.question, processedFiles |-> chat.processedFiles,
     loc |-> locationState]

\* POST /api/general-chat/sessions with its answer: the backend puts the new
\* session first in its roster.  c is the closure that continues.
CreateAnswers(c, text) ==
    LET r == [BaseReq EXCEPT !.kind = "create", !.inst = c.inst, !.text = text,
                  !.msgs = c.msgs, !.loc = c.loc, !.onDemand = TRUE]
    IN  {<<srvRoster, [r EXCEPT !.ok = FALSE]>>}
        \cup (IF Len(srvRoster) < MaxSessions
              THEN {<<(<<Len(srvRoster) + 1>>) \o srvRoster,
                      [r EXCEPT !.target = Len(srvRoster) + 1]>>}
              ELSE {})

\* POST /api/general-chat/sessions/{target}/messages with its answer: an
\* answered question and its reply are in the backend's transcript.
SendAnswers(c, target, text, onDemand) ==
    LET r == [BaseReq EXCEPT !.kind = "send", !.inst = c.inst, !.target = target,
                  !.sessionId = c.sessionId, !.text = text, !.loc = c.loc,
                  !.onDemand = onDemand, !.base = Len(srvMsgs[target])]
    IN  {<<[srvMsgs EXCEPT ![target] = @ \o <<UserMsg(text), ReplyMsg>>], r>>}
        \cup {<<srvMsgs, [r EXCEPT !.ok = FALSE, !.detail = d]>> : d \in {<<>>, Detail}}

\* handleSubmit from "setShowingLetters(false)" to its await of the post: the
\* optimistic message is appended to the messages of the closure.
BeginSend(c, target, text, onDemand, bag) ==
    \E x \in SendAnswers(c, target, text, onDemand) :
        /\ srvMsgs' = x[1]
        /\ IF c.inst = chat.key
           THEN Render(View([chat EXCEPT !.isLoading = TRUE,
                                         !.messages = Append(c.msgs, UserMsg(text)),
                                         !.question = <<>>],
                            Send(bag, x[2])), activeSessionId)
           ELSE NoRender(Send(bag, x[2]))

\* handleSubmit(question_p) of the closure c, up to its first await.
SubmitWith(c, question_p, bag) ==
    LET step == handleSubmitStep(c.processedFiles, question_p, c.question, c.sessionId)
        text == finalQuestion(question_p, c.question)
    IN  /\ alert' = IF step = "alertNoDocs" THEN NoDocsAlert
                    ELSE IF step = "alertEmpty" THEN EmptyAlert
                    ELSE ""
        /\ IF step = "create"
           THEN \E x \in CreateAnswers(c, text) :
                    /\ srvRoster' = x[1]
                    /\ NoRender(Send(bag, x[2]))
                    /\ UNCHANGED srvMsgs
           ELSE IF step = "send"
           THEN BeginSend(c, c.sessionId, text, FALSE, bag) /\ UNCHANGED srvRoster
           ELSE NoRender(bag) /\ UNCHANGED <<srvRoster, srvMsgs>>
        /\ UNCHANGED <<sessions, activeSessionId, chatKey>>

(***************************************************************************)
(* The steps of the user                                                   *)
(***************************************************************************)
\* The input calls setQuestion.
TypeQuestion(q) ==
    /\ userSteps > 0
    /\ userSteps' = userSteps - 1
    /\ ~chat.filesIsLoading
    /\ Render(View([chat EXCEPT !.question = q], chatNet), activeSessionId)
    /\ alert' = ""
    /\ UNCHANGED <<sessions, activeSessionId, chatKey, srvRoster, srvMsgs, srvProcessed, pollVars>>

\* The send button or the Enter key: handleSubmit().
SubmitTyped ==
    /\ userSteps > 0
    /\ userSteps' = userSteps - 1
    /\ ~chat.filesIsLoading
    /\ SubmitWith(Closure, <<>>, chatNet)
    /\ UNCHANGED <<srvProcessed, pollVars>>

\* Landing.handleQuestionSubmit of a visitor who is not logged in, in another
\* tab of the browser: the question goes to localStorage.
LandingStore(q) ==
    /\ userSteps > 0
    /\ userSteps' = userSteps - 1
    /\ Trim(q) # <<>>
    /\ pendingQuestion' = q
    /\ alert' = ""
    /\ UNCHANGED <<sessions, activeSessionId, chatKey, locationState, chat, chatNet,
                   srvRoster, srvMsgs, srvProcessed, pollVars>>

(***************************************************************************)
(* The continuations of the requests and of the timer                      *)
(***************************************************************************)
\* The timer of the deferred question fires: handleSubmit(questionToAsk) of
\* the render that scheduled it.
DeferredFire(r) ==
    /\ r.kind = "deferred"
    /\ SubmitWith([inst |-> r.inst, sessionId |-> r.sessionId, msgs |-> r.msgs,
                   question |-> r.question, processedFiles |-> r.processedFiles,
                   loc |-> r.loc], r.text, Receive(chatNet, r))
    /\ UNCHANGED <<srvProcessed, userSteps, pollVars>>

\* handleSubmit that returns without an alert when no session was created.
CreateResponseSilent(r) ==
    /\ r.kind = "create"
    /\ IF r.ok
       THEN /\ sessions' = <<r.target>> \o sessions
            /\ activeSessionId' = r.target
            /\ chatKey' = chatKey + 1
            /\ alert' = ""
            /\ \E x \in SendAnswers(r, r.target, r.text, TRUE) :
                  /\ srvMsgs' = x[1]
                  /\ \E m \in Mount(chatKey + 1, r.target,
                                    Send(Receive(chatNet, r), x[2]), x[1]) :
                         Render(View(m.chat, m.net), r.target)
       ELSE /\ alert' = ""
            /\ NoRender(Receive(chatNet, r))
            /\ UNCHANGED <<sessions, activeSessionId, chatKey, srvMsgs>>
    /\ UNCHANGED <<srvRoster, srvProcessed, userSteps, pollVars>>

\* createNewSession that puts the new session last in the roster.
CreateResponseAppends(r) ==
    /\ r.kind = "create"
    /\ IF r.ok
       THEN /\ sessions' = Append(sessions, r.target)
            /\ activeSessionId' = r.target
            /\ chatKey' = chatKey + 1
            /\ alert' = ""
            /\ \E x \in SendAnswers(r, r.target, r.text, TRUE) :
                  /\ srvMsgs' = x[1]
                  /\ \E m \in Mount(chatKey + 1, r.target,
                                    Send(Receive(chatNet, r), x[2]), x[1]) :
                         Render(View(m.chat, m.net), r.target)
       ELSE /\ alert' = CreateFailedAlert
            /\ NoRender(Receive(chatNet, r))
            /\ UNCHANGED <<sessions, activeSessionId, chatKey, srvMsgs>>
    /\ UNCHANGED <<srvRoster, srvProcessed, userSteps, pollVars>>

\* createNewSession after its await, then handleSubmit after its await of
\* onCreateSession(): the page mounts a fresh instance for the new session,
\* and the handleSubmit of the instance it has unmounted posts the question.
CreateResponse(r) ==
    /\ r.kind = "create"
    /\ IF r.ok
       THEN /\ sessions' = <<r.target>> \o sessions
            /\ activeSessionId' = r.target
            /\ chatKey' = chatKey + 1
            /\ alert' = ""
            /\ \E x \in SendAnswers(r, r.target, r.text, TRUE) :
                  /\ srvMsgs' = x[1]
                  /\ \E m \in Mount(chatKey + 1, r.target,
                                    Send(Receive(chatNet, r), x[2]), x[1]) :
                         Render(View(m.chat, m.net), r.target)
       ELSE /\ alert' = CreateFailedAlert
            /\ NoRender(Receive(chatNet, r))
            /\ UNCHANGED <<sessions, activeSessionId, chatKey, srvMsgs>>
    /\ UNCHANGED <<srvRoster, srvProcessed, userSteps, pollVars>>

\* handleSubmit after its await of the post.  On success it also calls
\* onSessionUpdate, the fetchSessions of the render of its closure.
SendResponse(r) ==
    /\ r.kind = "send"
    /\ LET answer == IF r.ok THEN ReplyMsg
                     ELSE AssistantMsg(IF r.detail # <<>> THEN r.detail ELSE Fallback)
           c == IF r.inst = chat.key
                THEN [chat EXCEPT !.messages = Append(@, answer), !.isLoading = FALSE]
                ELSE chat
       IN  IF r.ok
           THEN \E x \in SessionsAnswers(r.sessionId, r.loc) :
                    Render(View(c, Send(Receive(chatNet, r), x)), activeSessionId)
           ELSE IF r.inst = chat.key
           THEN Render(View(c, Receive(chatNet, r)), activeSessionId)
           ELSE NoRender(Receive(chatNet, r))
    /\ alert' = ""
    /\ UNCHANGED <<sessions, activeSessionId, chatKey, srvRoster, srvMsgs, srvProcessed, userSteps, pollVars>>

\* fetchSessions after its await.  activeSessionId is the one of its closure,
\* the pending question is read now.
SessionsResponse(r) ==
    /\ r.kind = "sessions"
    /\ LET pendingQ == r.loc # <<>> \/ pendingQuestion # <<>>
           select == r.ok /\ r.sessionId = 0 /\ r.roster # <<>> /\ ~pendingQ
           active == IF select THEN Head(r.roster) ELSE activeSessionId
       IN  /\ sessions' = IF r.ok THEN r.roster ELSE sessions
           /\ activeSessionId' = active
           /\ IF active # activeSessionId
              THEN \E m \in LoadEffect(chat, active, Receive(chatNet, r), srvMsgs) :
                       Render(View(m.chat, m.net), active)
              ELSE Render(View(chat, Receive(chatNet, r)), active)
    /\ alert' = ""
    /\ UNCHANGED <<chatKey, srvRoster, srvMsgs, srvProcessed, userSteps, pollVars>>

\* loadSessionMessages whose catch block leaves the messages as they are.
HistoryResponseKeepsStale(r) ==
    /\ r.kind = "history"
    /\ IF r.inst = chat.key
       THEN Render(View([chat EXCEPT !.messages = IF r.ok THEN formattedMessages(r.msgs)
                                                           ELSE @,
                                     !.isLoadingMessages = FALSE],
                        Receive(chatNet, r)), activeSessionId)
       ELSE NoRender(Receive(chatNet, r))
    /\ alert' = ""
    /\ UNCHANGED <<sessions, activeSessionId, chatKey, srvRoster, srvMsgs, srvProcessed, userSteps, pollVars>>

\* loadSessionMessages after its await.
HistoryResponse(r) ==
    /\ r.kind = "history"
    /\ IF r.inst = chat.key
       THEN Render(View([chat EXCEPT !.messages = IF r.ok THEN formattedMessages(r.msgs)
                                                           ELSE <<>>,
                                     !.isLoadingMessages = FALSE],
                        Receive(chatNet, r)), activeSessionId)
       ELSE NoRender(Receive(chatNet, r))
    /\ alert' = ""
    /\ UNCHANGED <<sessions, activeSessionId, chatKey, srvRoster, srvMsgs, srvProcessed, userSteps, pollVars>>

\* The file list of the instance arrives: useFetch stops loading.
ChatFilesResponse(r) ==
    /\ r.kind = "files"
    /\ IF r.inst = chat.key
       THEN Render(View([chat EXCEPT !.filesIsLoading = FALSE,
                                     !.processedFiles = r.processedFiles],
                        Receive(chatNet, r)), activeSessionId)
       ELSE NoRender(Receive(chatNet, r))
    /\ alert' = ""
    /\ UNCHANGED <<sessions, activeSessionId, chatKey, srvRoster, srvMsgs, srvProcessed, userSteps, pollVars>>

ChatDeliver ==
    \E r \in BagToSet(chatNet) :
        \/ DeferredFire(r)
        \/ CreateResponse(r)
        \/ SendResponse(r)
        \/ SessionsResponse(r)
        \/ HistoryResponse(r)
        \/ ChatFilesResponse(r)

ChatNext ==
    \/ ChatDeliver
    \/ \E q \in RawTexts : TypeQuestion(q)
    \/ SubmitTyped
    \/ LandingStore(<<"h">>)

(***************************************************************************)
(* Initial states and specifications                                       *)
(***************************************************************************)
\* Part II at rest, for the behaviours of Part I.
ChatIdle ==
    /\ sessions = <<>>
    /\ activeSessionId = 0
    /\ chatKey = 0
    /\ locationState = <<>>
    /\ pendingQuestion = <<>>
    /\ chat = NewInstance(0)
    /\ chatNet = EmptyBag
    /\ srvRoster = <<>>
    /\ srvMsgs = [i \in SessionIds |-> <<>>]
    /\ srvProcessed = 0
    /\ alert = ""
    /\ userSteps = 0

OldTranscript == <<UserMsg(<<"o">>), ReplyMsg>>

\* The page has mounted: its mount effect has called fetchSessions(), and the
\* mount effect of its GeneralChat instance has called fetchFiles().  The
\* visitor may come from the landing page with a question.
ChatInit ==
    /\ sessions = <<>>
    /\ activeSessionId = 0
    /\ chatKey = 0
    /\ \E lp \in {<<(<<>>), (<<>>)>>, <<(<<"h">>), (<<>>)>>, <<(<<>>), (<<"h">>)>>} :
          /\ locationState = lp[1]
          /\ pendingQuestion = lp[2]
    /\ chat = NewInstance(0)
    /\ srvRoster \in {<<>>, <<1>>}
    /\ srvMsgs = [i \in SessionIds |-> IF i <= Len(srvRoster) THEN OldTranscript ELSE <<>>]
    /\ srvProcessed \in {0, 1}
    /\ chatNet \in {SetToBag({s, f}) :
                       s \in SessionsAnswers(0, locationState), f \in ChatFilesAnswers(0)}
    /\ alert = ""
    /\ userSteps = MaxUserSteps

\* One file, any backend, requests may fail.
Init ==
    /\ PollInitWith({"f1"}, MaxRequests, [failures |-> TRUE, spontaneous |-> TRUE])
    /\ ChatIdle

Next == PollNext

Spec == Init /\ [][Next]_vars

\* One file that starts pending and waits for its process request; no request fails.
ScenarioInit ==
    /\ PollInitWith({"f1"}, ScenarioRequests, [failures |-> FALSE, spontaneous |-> FALSE])
    /\ srv["f1"] = "pending"
    /\ ChatIdle

SpecScenario == ScenarioInit /\ [][Next]_vars

\* The chat page, the poller of its GeneralChat instance having nothing to poll.
InitChat ==
    /\ PollInitWith({}, 0, [failures |-> FALSE, spontaneous |-> FALSE])
    /\ ChatInit

SpecChat == InitChat /\ [][ChatNext]_vars

\* The chat page from its mount on, the user doing nothing more: the requests
\* of the mount and the timer of the deferred question run to their end.
SpecDeferred == InitChat /\ [][ChatDeliver]_vars /\ WF_vars(ChatDeliver)

\* The chat page entered with a deferred question, from its mount on.
EnteredInit ==
    /\ InitChat
    /\ locationState # <<>> \/ pendingQuestion # <<>>

SpecEntered == EnteredInit /\ [][ChatDeliver]_vars

\* The chat page entered by a logged-in visitor from the landing page with
\* the question "h" in the navigation state, while localStorage may still
\* hold the question "p" that the visitor stored before logging in.
StoredInit ==
    /\ PollInitWith({}, 0, [failures |-> FALSE, spontaneous |-> FALSE])
    /\ sessions = <<>>
    /\ activeSessionId = 0
    /\ chatKey = 0
    /\ locationState = <<"h">>
    /\ pendingQuestion \in {<<>>, <<"p">>}
    /\ chat = NewInstance(0)
    /\ srvRoster \in {<<>>, <<1>>}
    /\ srvMsgs = [i \in SessionIds |-> IF i <= Len(srvRoster) THEN OldTranscript ELSE <<>>]
    /\ srvProcessed \in {0, 1}
    /\ chatNet \in {SetToBag({s, f}) :
                       s \in SessionsAnswers(0, locationState), f \in ChatFilesAnswers(0)}
    /\ alert = ""
    /\ userSteps = 0

SpecStored == StoredInit /\ [][ChatDeliver]_vars

\* Status requests the poller sends in the behaviours of SpecSweep.
SweepRequests == 3

\* Two files in the list, each in any state at the backend; requests may fail.
SweepInit ==
    /\ PollInitWith({"f1", "f2"}, SweepRequests, [failures |-> TRUE, spontaneous |-> FALSE])
    /\ ChatIdle

SpecSweep == SweepInit /\ [][Next]_vars

(***************************************************************************)
(* The view unmounts: the cleanup of its first effect clears every         *)
(* interval whose handle is in pollIntervalsRef; the handles stay in the   *)
(* ref.  Requests in flight are not aborted.                               *)
(***************************************************************************)
Unmount ==
    /\ mounted
    /\ mounted' = FALSE
    /\ timers' = {t \in timers : \A f \in Files : pollIntervalsRef[f] # t.id}
    /\ UNCHANGED <<now, filesData, fileStatuses, pollIntervalsRef, net, srv,
                   listed, budget, env, toasts, pollLog, chatVars>>

\* HTTP requests the poller sends in the behaviours of SpecUnmount.
UnmountRequests == 3

\* One file, any backend, no request fails; the view may unmount at any moment.
UnmountInit ==
    /\ PollInitWith({"f1"}, UnmountRequests, [failures |-> FALSE, spontaneous |-> TRUE])
    /\ ChatIdle

UnmountNext == PollNext \/ Unmount

SpecUnmount == UnmountInit /\ [][UnmountNext]_vars

\* HTTP requests the poller sends in the behaviours of SpecReorder.
ReorderRequests == 5

\* One file, any backend, no request fails: answers may overtake each other.
ReorderInit ==
    /\ PollInitWith({"f1"}, ReorderRequests, [failures |-> FALSE, spontaneous |-> TRUE])
    /\ ChatIdle

SpecReorder == ReorderInit /\ [][Next]_vars

\* The dashboard with one file, any backend, no request fails; the user may
\* delete the file at any moment.
DeleteInit ==
    /\ PollInitWith({"f1"}, DeleteRequests, [failures |-> FALSE, spontaneous |-> TRUE])
    /\ ChatIdle

SpecDelete == DeleteInit /\ [][DeleteNext]_vars

\* The number of requests the views may send in the behaviours of SpecOverlap
\* after the one for the file list: the status request of the load, the
\* process request, three overlapping status requests and the two refetches
\* of the file list.
OverlapRequests == 7

\* One file that starts pending and waits for its process request; no request
\* fails, and the answers of overlapping status requests may overtake each other.
OverlapInit ==
    /\ PollInitWith({"f1"}, OverlapRequests, [failures |-> FALSE, spontaneous |-> FALSE])
    /\ srv["f1"] = "pending"
    /\ ChatIdle

SpecOverlap == OverlapInit /\ [][Next]_vars

\* The chat page after its mount: the roster is loaded and its first session,
\* if any, is active; its transcript is shown, or the request that loads it is
\* still in flight; the file list is loaded; no deferred question waits; the
\* user has typed a text, or none, into the input.
TypedInit ==
    /\ PollInitWith({}, 0, [failures |-> FALSE, spontaneous |-> FALSE])
    /\ srvRoster \in {<<>>, <<1>>}
    /\ sessions = srvRoster
    /\ activeSessionId = Len(srvRoster)
    /\ chatKey = 0
    /\ locationState = <<>>
    /\ pendingQuestion = <<>>
    /\ srvMsgs = [i \in SessionIds |-> IF i <= Len(srvRoster) THEN OldTranscript ELSE <<>>]
    /\ srvProcessed \in {0, 1}
    /\ \E q \in RawTexts \cup {<<>>} :
          LET typed == [NewInstance(0) EXCEPT !.filesIsLoading = FALSE,
                                              !.processedFiles = srvProcessed,
                                              !.question = q]
          IN  \/ /\ chat = [typed EXCEPT !.messages = IF srvRoster = <<>> THEN <<>>
                                                       ELSE OldTranscript]
                  /\ chatNet = EmptyBag
              \/ /\ srvRoster # <<>>
                  /\ \E m \in LoadEffect(typed, 1, EmptyBag, srvMsgs) :
                         chat = m.chat /\ chatNet = m.net
    /\ alert = ""
    /\ userSteps = MaxUserSteps

SpecTyped == TypedInit /\ [][ChatNext]_vars

(***************************************************************************)
(* The sidebar of GeneralChatPage: the "New Chat" button, the session      *)
(* entries and their delete buttons.  The list of sessions is rendered     *)
(* once isLoadingSessions is false; the button is always rendered.         *)
(***************************************************************************)
\* Clicks of the user in one behaviour of SpecPage.
MaxClicks == 2

\* s.filter(x => x.id !== id)
Without(s, id) == SelectSeq(s, LAMBDA x : x # id)

Ids(s) == {s[i] : i \in DOMAIN s}

\* isLoadingSessions: a fetchSessions has not returned yet.
isLoadingSessions == \E r \in BagToSet(chatNet) : r.kind = "sessions"

\* Session ids the backend lists, or the page or a request in flight names.
KnownSessions ==
    Ids(srvRoster) \cup Ids(sessions) \cup {activeSessionId}
        \cup UNION {{r.target, r.sessionId} \cup Ids(r.roster) : r \in BagToSet(chatNet)}

\* POST /api/general-chat/sessions of the button: the backend gives the new
\* session an id that names no other session and puts it first in its roster.
NewChatAnswers ==
    LET r == [BaseReq EXCEPT !.kind = "newchat"]
        free == SessionIds \ KnownSessions
    IN  {<<srvRoster, [r EXCEPT !.ok = FALSE]>>}
        \cup (IF free # {}
              THEN LET id == CHOOSE i \in free : \A j \in free : i <= j
                   IN  {<<(<<id>>) \o srvRoster, [r EXCEPT !.target = id]>>}
              ELSE {})

\* DELETE /api/general-chat/sessions/{id}, sent by a deleteSession whose
\* closure has captured activeSessionId a and sessions s.
DeleteAnswers(id, a, s) ==
    LET r == [BaseReq EXCEPT !.kind = "delete", !.target = id, !.sessionId = a, !.roster = s]
    IN  {<<srvRoster, srvMsgs, [r EXCEPT !.ok = FALSE]>>}
        \cup (IF id \in Ids(srvRoster)
              THEN {<<Without(srvRoster, id), [srvMsgs EXCEPT ![id] = <<>>], r>>}
              ELSE {})

\* The page shows the session sid: a new key mounts a fresh instance, a new
\* sessionId alone runs the load effect of the mounted one.
Show(key, sid, bag) ==
    IF key # chatKey
    THEN \E m \in Mount(key, sid, bag, srvMsgs') : Render(View(m.chat, m.net), sid)
    ELSE IF sid # activeSessionId
    THEN \E m \in LoadEffect(chat, sid, bag, srvMsgs') : Render(View(m.chat, m.net), sid)
    ELSE NoRender(bag)

\* The button "New Chat": createNewSession up to its await.
NewChatClick ==
    /\ userSteps > 0
    /\ userSteps' = userSteps - 1
    /\ \E x \in NewChatAnswers :
          /\ srvRoster' = x[1]
          /\ NoRender(Send(chatNet, x[2]))
    /\ alert' = ""
    /\ UNCHANGED <<sessions, activeSessionId, chatKey, srvMsgs, srvProcessed, pollVars>>

\* createNewSession after its await.
NewChatResponse(r) ==
    /\ r.kind = "newchat"
    /\ sessions' = IF r.ok THEN <<r.target>> \o sessions ELSE sessions
    /\ activeSessionId' = IF r.ok THEN r.target ELSE activeSessionId
    /\ chatKey' = IF r.ok THEN chatKey + 1 ELSE chatKey
    /\ UNCHANGED srvMsgs
    /\ Show(chatKey', activeSessionId', Receive(chatNet, r))
    /\ alert' = ""
    /\ UNCHANGED <<srvRoster, srvProcessed, userSteps, pollVars>>

\* switchSession without its test.
switchSessionAlways(id) ==
    /\ userSteps > 0
    /\ userSteps' = userSteps - 1
    /\ ~isLoadingSessions
    /\ id \in Ids(sessions)
    /\ activeSessionId' = id
    /\ chatKey' = chatKey + 1
    /\ UNCHANGED srvMsgs
    /\ Show(chatKey', id, chatNet)
    /\ alert' = ""
    /\ UNCHANGED <<sessions, srvRoster, srvProcessed, pollVars>>

\* A click on the entry of the session id: switchSession(id).
switchSession(id) ==
    /\ userSteps > 0
    /\ userSteps' = userSteps - 1
    /\ ~isLoadingSessions
    /\ id \in Ids(sessions)
    /\ activeSessionId' = id
    /\ chatKey' = IF id # activeSessionId THEN chatKey + 1 ELSE chatKey
    /\ UNCHANGED srvMsgs
    /\ Show(chatKey', id, chatNet)
    /\ alert' = ""
    /\ UNCHANGED <<sessions, srvRoster, srvProcessed, pollVars>>

\* A click on the delete button of the session id, confirmed: deleteSession
\* up to its await.
DeleteClick(id) ==
    /\ userSteps > 0
    /\ userSteps' = userSteps - 1
    /\ ~isLoadingSessions
    /\ id \in Ids(sessions)
    /\ \E x \in DeleteAnswers(id, activeSessionId, sessions) :
          /\ srvRoster' = x[1]
          /\ srvMsgs' = x[2]
          /\ NoRender(Send(chatNet, x[3]))
    /\ alert' = ""
    /\ UNCHANGED <<sessions, activeSessionId, chatKey, srvProcessed, pollVars>>

\* deleteSession after its await: activeSessionId and sessions of the test
\* and of "remaining" are those of its closure.
DeleteResponse(r) ==
    /\ r.kind = "delete"
    /\ LET remaining == Without(r.roster, r.target)
           wasActive == r.ok /\ r.sessionId = r.target
       IN  /\ sessions' = IF r.ok THEN Without(sessions, r.target) ELSE sessions
           /\ activeSessionId' = IF ~wasActive THEN activeSessionId
                                 ELSE IF remaining # <<>> THEN Head(remaining)
                                 ELSE 0
           /\ chatKey' = IF wasActive /\ remaining # <<>> THEN chatKey + 1 ELSE chatKey
    /\ UNCHANGED srvMsgs
    /\ Show(chatKey', activeSessionId', Receive(chatNet, r))
    /\ alert' = ""
    /\ UNCHANGED <<srvRoster, srvProcessed, userSteps, pollVars>>

PageDeliver ==
    \E r \in BagToSet(chatNet) :
        \/ SessionsResponse(r)
        \/ HistoryResponse(r)
        \/ ChatFilesResponse(r)
        \/ NewChatResponse(r)
        \/ DeleteResponse(r)

PageNext ==
    \/ PageDeliver
    \/ NewChatClick
    \/ \E id \in SessionIds : switchSession(id)
    \/ \E id \in SessionIds : DeleteClick(id)

\* The page has mounted with no deferred question; the backend lists no
\* session, one or two.
PageInit ==
    /\ PollInitWith({}, 0, [failures |-> FALSE, spontaneous |-> FALSE])
    /\ sessions = <<>>
    /\ activeSessionId = 0
    /\ chatKey = 0
    /\ locationState = <<>>
    /\ pendingQuestion = <<>>
    /\ chat = NewInstance(0)
    /\ srvRoster \in {<<>>, <<1>>, <<2, 1>>}
    /\ srvMsgs = [i \in SessionIds |-> IF i <= Len(srvRoster) THEN OldTranscript ELSE <<>>]
    /\ srvProcessed = 1
    /\ chatNet \in {SetToBag({s, f}) :
                       s \in SessionsAnswers(0, locationState), f \in ChatFilesAnswers(0)}
    /\ alert = ""
    /\ userSteps = MaxClicks

SpecPage == PageInit /\ [][PageNext]_vars

\* The send button or the Enter key while a session is active.
SubmitInSession == activeSessionId # 0 /\ SubmitTyped

BusyDeliver ==
    \E r \in BagToSet(chatNet) :
        \/ SendResponse(r)
        \/ SessionsResponse(r)
        \/ HistoryResponse(r)
        \/ ChatFilesResponse(r)
        \/ NewChatResponse(r)
        \/ DeleteResponse(r)

\* The page with a question typed: the user submits it and uses the sidebar.
BusyNext ==
    \/ BusyDeliver
    \/ SubmitInSession
    \/ NewChatClick
    \/ \E id \in SessionIds : switchSession(id)
    \/ \E id \in SessionIds : DeleteClick(id)

\* The page at rest: the roster is loaded and its first session is active and
\* shown, one document is processed, the user has typed "h".
BusyInit ==
    /\ PollInitWith({}, 0, [failures |-> FALSE, spontaneous |-> FALSE])
    /\ srvRoster \in {<<1>>, <<2, 1>>}
    /\ sessions = srvRoster
    /\ activeSessionId = Head(srvRoster)
    /\ chatKey = 0
    /\ locationState = <<>>
    /\ pendingQuestion = <<>>
    /\ srvMsgs = [i \in SessionIds |-> IF i <= Len(srvRoster) THEN OldTranscript ELSE <<>>]
    /\ srvProcessed = 1
    /\ chat = [NewInstance(0) EXCEPT !.filesIsLoading = FALSE,
                                     !.processedFiles = srvProcessed,
                                     !.messages = OldTranscript,
                                     !.question = <<"h">>]
    /\ chatNet = EmptyBag
    /\ alert = ""
    /\ userSteps = MaxClicks

SpecBusy == BusyInit /\ [][BusyNext]_vars

(***************************************************************************)
(* Properties of the poller                                                *)
(***************************************************************************)
Last(q) == q[Len(q)]

IsPrefix(p, q) == Len(p) <= Len(q) /\ SubSeq(q, 1, Len(p)) = p

\* Date.now() - startTime for a tracked file, as pollStatus computes it.
Elapsed(f) ==
    IF fileStatuses[f].startTime # 0 THEN now - fileStatuses[f].startTime ELSE 0

PollInFlight(f) == \E r \in BagToSet(net) : r.kind = "poll" /\ r.file = f

\* C1: at every moment each file id has at most one live interval timer, and
\* the handle in pollIntervalsRef is the handle of that timer: startPolling
\* cancels the timer it finds before it creates the new one.
C1_OneTimerPerFile ==
    \A f \in Files :
        /\ Cardinality(LiveTimers(f)) <= 1
        /\ \A t \in LiveTimers(f) : pollIntervalsRef[f] = t.id

\* startPolling has run for a file whose timer was live: a status request had
\* been sent for it, no terminal answer was applied since, and polling was
\* started again by the sweep or by a process answer.
C1_Witness ==
    \E f \in Files : \E i, j \in DOMAIN pollLog[f] :
        /\ i < j
        /\ pollLog[f][i] = "sent"
        /\ pollLog[f][j] \in {"resumed", "started"}
        /\ \A k \in (i + 1)..(j - 1) : pollLog[f][k] \notin {"completed", "failed", "timeout"}
        /\ LiveTimers(f) # {}

\* C2: a step that applies a status answer for a file whose tracked startTime
\* lies more than POLL_TIMEOUT back leaves the file failed with the timeout
\* text, with no live timer, and with one more timeout notification, whatever
\* status the answer carries.
C2_TimeoutOverrides ==
    [][\A r \in BagToSet(net) :
          (PollResponse(r) /\ r.ok /\ mounted /\ Elapsed(r.file) > POLL_TIMEOUT)
          => /\ fileStatuses'[r.file].status = "failed"
             /\ fileStatuses'[r.file].error = TimeoutText
             /\ fileStatuses'[r.file].startTime = fileStatuses[r.file].startTime
             /\ {t \in timers' : t.file = r.file} = {}
             /\ pollIntervalsRef'[r.file] = 0
             /\ toasts'[r.file]["Timeout"] = toasts[r.file]["Timeout"] + 1]_vars

\* The timeout has overridden an answer of a backend that has completed the file.
C2_Witness ==
    \E f \in Files :
        /\ pollLog[f] # <<>>
        /\ Last(pollLog[f]) = "timeout"
        /\ srv[f] = "completed"
        /\ fileStatuses[f].status = "failed"
        /\ fileStatuses[f].error = TimeoutText
        /\ toasts[f]["Timeout"] = 1
        /\ LiveTimers(f) = {}

\* C3: a live timer does not outlive the first tick after POLL_TIMEOUT: once
\* every status request of the file has been answered, a file whose timer is
\* still live is tracked for at most POLL_TIMEOUT + POLL_INTERVAL.
C3_LoopStops ==
    \A t \in timers :
        ~PollInFlight(t.file) => Elapsed(t.file) <= POLL_TIMEOUT + POLL_INTERVAL

\* C4: once a completed answer has been applied for a file, the file has no
\* live timer and pollStatus sends nothing more for it, until handleProcessFile
\* is called for it again.
C4_NoPollAfterCompleted ==
    \A f \in Files : \A i \in DOMAIN pollLog[f] :
        (/\ pollLog[f][i] = "completed"
         /\ \A j \in (i + 1)..Len(pollLog[f]) : pollLog[f][j] # "process")
        => /\ LiveTimers(f) = {}
           /\ \A j \in (i + 1)..Len(pollLog[f]) : pollLog[f][j] \notin {"sent", "resumed"}

\* The backend has been seen to process the file: a sweep, a process answer
\* or an applied poll answer said so.
ObservedProcessing(f) ==
    \E i \in DOMAIN pollLog[f] : pollLog[f][i] \in {"resumed", "started", "processing"}

\* C5 as stated: a success or failure notification about a file's processing
\* is shown only if the file was observed processing before.
C5_OnlyAfterObservedProcessing ==
    [][\A f \in Files :
          \A k \in {"Complete", "CompleteDirect", "FailedServerError", "FailedFallback"} :
              toasts'[f][k] # toasts[f][k] => ObservedProcessing(f)]_vars

\* C5: a completion or failure notification of pollStatus is shown only in a
\* step that applies a poll answer to a record whose status is processing; the
\* only other notifications are the timeout of a tracked file and those of
\* handleProcessFile about its own request; the sweep and the file list show none.
C5_PollNotifiesOnlyWhenProcessing ==
    [][\A f \in Files : \A k \in ToastKinds :
          toasts'[f][k] # toasts[f][k]
          => /\ toasts'[f][k] = toasts[f][k] + 1
             /\ k \in {"Complete", "FailedServerError", "FailedFallback"}
                   => /\ fileStatuses[f].status = "processing"
                      /\ \E r \in BagToSet(net) : r.kind = "poll" /\ r.file = f /\ r.ok
                            /\ r.status = (IF k = "Complete" THEN "completed" ELSE "failed")
                            /\ PollResponse(r)
             /\ k = "Timeout"
                   => /\ Elapsed(f) > POLL_TIMEOUT
                      /\ \E r \in BagToSet(net) : r.kind = "poll" /\ r.file = f /\ PollResponse(r)
             /\ k \in {"CompleteDirect", "ProcessingFailedDetail", "ProcessingFailedFallback"}
                   => \E r \in BagToSet(net) : r.kind = "process" /\ r.file = f
                                                  /\ ProcessResponse(r)]_vars

\* A poll answer completed was applied to a record that was processing and the
\* success notification of pollStatus is shown.
C5_Witness ==
    \E f \in Files :
        /\ toasts[f]["Complete"] = 1
        /\ pollLog[f] # <<>>
        /\ Last(pollLog[f]) = "completed"
        /\ fileStatuses[f].status = "completed"

ScenarioLog ==
    <<"process", "started", "sent", "processing", "sent", "processing", "sent", "completed">>

SuccessToasts(t, f) == t[f]["Complete"] + t[f]["CompleteDirect"]

HasFilesRequest(bag) == \E r \in BagToSet(bag) : r.kind = "files"

\* C6: for the file that starts pending, while the history is a proper prefix
\* of process, (poll, processing), (poll, processing), (poll, completed) no
\* notification is shown; the step that applies the third answer shows the one
\* success notification, cancels the timer and refetches the file list; after
\* it no status request is sent and nothing more is notified.
C6_Scenario ==
    [][/\ (IsPrefix(pollLog'["f1"], ScenarioLog) /\ pollLog'["f1"] # ScenarioLog)
            => \A k \in ToastKinds : toasts'["f1"][k] = 0
       /\ (pollLog'["f1"] = ScenarioLog /\ pollLog["f1"] # ScenarioLog)
            => /\ SuccessToasts(toasts', "f1") = 1
               /\ toasts'["f1"]["Complete"] = 1
               /\ {t \in timers' : t.file = "f1"} = {}
               /\ HasFilesRequest(net') /\ ~HasFilesRequest(net)
       /\ pollLog["f1"] = ScenarioLog
            => /\ pollLog'["f1"] = ScenarioLog
               /\ timers' = {}
               /\ toasts' = toasts
               /\ \A r \in BagToSet(net') : r.kind # "poll"]_vars

\* The scenario has run to its end and the refetched file list has arrived.
C6_Witness ==
    /\ pollLog["f1"] = ScenarioLog
    /\ toasts["f1"]["Complete"] = 1
    /\ "f1" \in filesData.processed
    /\ net = EmptyBag

(***************************************************************************)
(* Properties of the chat controller                                       *)
(***************************************************************************)
ErrorText(r) == IF r.detail # <<>> THEN r.detail ELSE Fallback

\* C7: a handleSubmit whose closure sees no processed document shows the
\* alert about the knowledge base and does nothing else: no request is sent,
\* no session is created, and the roster, the active session and the messages
\* stay as they are.
C7_NoDocumentsNoCall ==
    [][(\/ SubmitTyped /\ chat.processedFiles = 0
        \/ \E r \in BagToSet(chatNet) : DeferredFire(r) /\ r.processedFiles = 0)
       => /\ alert' = NoDocsAlert
          /\ ChatRequests(chatNet') = ChatRequests(chatNet)
          /\ BagCardinality(chatNet') <= BagCardinality(chatNet)
          /\ srvRoster' = srvRoster
          /\ srvMsgs' = srvMsgs
          /\ sessions' = sessions
          /\ activeSessionId' = activeSessionId
          /\ chat'.messages = chat.messages]_vars

\* A submit was refused for want of a processed document.
C7_Witness ==
    /\ alert = NoDocsAlert
    /\ ~chat.filesIsLoading
    /\ chat.processedFiles = 0

\* C8: while the question of a submit that created the first session is being
\* answered, the transcript shown ends with the user's message; when the
\* answer arrives the transcript shown is the user's message followed by the
\* assistant's reply.
C8_OnDemandTranscript ==
    [][/\ \A r \in BagToSet(chatNet') :
             (r.kind = "send" /\ r.onDemand /\ Len(srvRoster') = 1)
             => /\ chat'.messages # <<>>
                /\ Last(chat'.messages) = UserMsg(r.text)
       /\ \A r \in BagToSet(chatNet) :
             (SendResponse(r) /\ r.ok /\ r.onDemand /\ Len(srvRoster) = 1)
             => chat'.messages = <<UserMsg(r.text), ReplyMsg>>]_vars

\* C9: the step that applies a failed send leaves the transcript shown as it
\* was plus one assistant message, which carries the detail of the failure or
\* the fallback text and follows the user's message.
C9_SendFailureAppendsError ==
    [][\A r \in BagToSet(chatNet) :
          (SendResponse(r) /\ ~r.ok)
          => /\ chat'.messages = Append(chat.messages, AssistantMsg(ErrorText(r)))
             /\ Len(chat.messages) >= 1
             /\ Last(chat.messages) = UserMsg(r.text)]_vars

\* C10: an instance schedules the submit of a deferred question at most once.
C10_DeferredAtMostOnce == chat.scheduled <= 1

\* The instance has scheduled its deferred question, and its effect has run
\* again with a question waiting.
C10_Witness ==
    /\ chat.scheduled = 1
    /\ chat.skipped
    /\ pendingQuestion # <<>>

\* A deferred question waits in location.state or in localStorage.
QuestionWaiting == locationState # <<>> \/ pendingQuestion # <<>>

QuestionToAsk == IF locationState # <<>> THEN locationState ELSE pendingQuestion

SendCarrying(bag, text) == \E q \in BagToSet(bag) : q.kind = "send" /\ q.text = text

\* The deferred question has been scheduled after the file list was loaded,
\* with the processed documents of the list in the closure, it has created its
\* session, and the send request that carries it is in flight.
C11_Witness ==
    /\ srvProcessed >= 1
    /\ ~QuestionWaiting
    /\ \E q \in BagToSet(chatNet) :
          /\ q.kind = "send"
          /\ q.onDemand
          /\ q.text = <<"h">>
          /\ q.inst # chat.key

\* C11 as stated: a question that waits when the view mounts leads to a send
\* request that carries it, whenever a document is processed.
C11_DeferredAlwaysSent ==
    (chat.key = 0 /\ chat.filesIsLoading /\ QuestionWaiting /\ srvProcessed >= 1)
        ~> SendCarrying(chatNet, <<"h">>)

\* C11: the submit of a deferred question is scheduled only by a render that
\* shows the file list loaded, and its closure holds the processed documents
\* of the list; the render in which the list arrives schedules the question
\* that waits and clears it; with a processed document the scheduled submit
\* shows no alert and sends the creation of a session or the question itself,
\* and a session that was created is followed by the send of the question.  So
\* a question that waits at the mount leads to a send request that carries it
\* or to the alert of a failed creation of the session.
C11_DeferredSubmittedAfterLoad ==
    /\ [][/\ \A d \in BagToSet(chatNet') :
                (d.kind = "deferred" /\ CopiesIn(d, chatNet') > CopiesIn(d, chatNet))
                => /\ ~chat'.filesIsLoading
                   /\ d.inst = chat'.key
                   /\ d.processedFiles = srvProcessed
                   /\ d.text = QuestionToAsk
          /\ \A r \in BagToSet(chatNet) :
                (ChatFilesResponse(r) /\ r.inst = chat.key /\ QuestionWaiting
                    /\ ~chat.hasHandledPendingRef)
                => /\ ~QuestionWaiting'
                   /\ \E d \in BagToSet(chatNet') :
                         d.kind = "deferred" /\ d.text = QuestionToAsk
          /\ \A r \in BagToSet(chatNet) :
                (DeferredFire(r) /\ r.processedFiles >= 1)
                => /\ alert' = ""
                   /\ \E q \in BagToSet(chatNet') :
                         /\ q.kind = (IF r.sessionId = 0 THEN "create" ELSE "send")
                         /\ q.text = Trim(r.text)
          /\ \A r \in BagToSet(chatNet) :
                (CreateResponse(r) /\ r.ok)
                => \E q \in BagToSet(chatNet') :
                      q.kind = "send" /\ q.text = r.text /\ q.target = r.target]_vars
    /\ (chat.key = 0 /\ chat.filesIsLoading /\ QuestionWaiting /\ srvProcessed >= 1)
          ~> (SendCarrying(chatNet, <<"h">>) \/ alert = CreateFailedAlert)

\* The entries of the history q that are in the set s.
RECURSIVE Count(_, _)
Count(q, s) ==
    IF q = <<>> THEN 0
    ELSE (IF Head(q) \in s THEN 1 ELSE 0) + Count(Tail(q), s)

\* Status requests of pollStatus that have failed in transport for the file:
\* those sent that are neither in flight nor applied.
FailedPolls(f) ==
    Count(pollLog[f], {"sent"})
        - Count(pollLog[f], Statuses \cup {"timeout"})
        - Cardinality({r \in BagToSet(net) : r.kind = "poll" /\ r.file = f})

\* C12: the step in which a status request of pollStatus fails in transport
\* leaves every tracked record, every notification, every live timer and every
\* handle as it was, and sends nothing; a timer that was live for the file is
\* still live and still due at its next tick.
C12_FailedPollChangesNothing ==
    [][\A r \in BagToSet(net) :
          (PollResponse(r) /\ ~r.ok)
          => /\ fileStatuses' = fileStatuses
             /\ toasts' = toasts
             /\ timers' = timers
             /\ pollIntervalsRef' = pollIntervalsRef
             /\ filesData' = filesData
             /\ net' = Receive(net, r)]_vars

\* A status request of a tracked, polled file has failed: the record is still
\* processing, nothing is notified and the timer is live.
C12_Witness ==
    \E f \in Files :
        /\ FailedPolls(f) >= 1
        /\ ~PollInFlight(f)
        /\ fileStatuses[f].status = "processing"
        /\ LiveTimers(f) # {}
        /\ \A k \in ToastKinds : toasts[f][k] = 0

SweepRequestsOf(bag) == {q \in BagToSet(bag) : q.kind = "sweep"}

\* The files a sweep request stands for: the one it queries and those the
\* sweep has still to query.
SweepList(q) == <<q.file>> \o q.rest

\* The sweep requests a step has sent.
NewSweeps == {q \in SweepRequestsOf(net') : CopiesIn(q, net') > CopiesIn(q, net)}

\* C13: a file list that is loaded starts one sweep over its files that are
\* not marked processed, in the order of the list, and none when every file
\* is processed; every answer of a sweep makes the sweep query the next file
\* of its list, so that each such file is queried once and a processed file
\* never; an answer processing sets the file's record to the answer with
\* startTime = now and leaves the file exactly one live timer, due one
\* interval later; any other answer and a failed query leave every record,
\* timer and handle as they were; no step of the sweep notifies.
C13_ResumeOnLoad ==
    [][/\ \A r \in BagToSet(net) :
             (FilesResponse(r) /\ r.ok)
             => LET todo == Unprocessed(r.files, r.processed)
                IN  /\ \A i \in DOMAIN todo : todo[i] \in r.files \ r.processed
                    /\ \A f \in r.files \ r.processed : \E i \in DOMAIN todo : todo[i] = f
                    /\ \A i, j \in DOMAIN todo : todo[i] = todo[j] => i = j
                    /\ IF todo = <<>> THEN NewSweeps = {}
                       ELSE \E q \in NewSweeps : NewSweeps = {q} /\ SweepList(q) = todo
                    /\ fileStatuses' = fileStatuses
                    /\ timers' = timers
                    /\ toasts' = toasts
       /\ \A r \in BagToSet(net) :
             SweepResponse(r)
             => /\ IF r.rest = <<>> THEN NewSweeps = {}
                   ELSE \E q \in NewSweeps : NewSweeps = {q} /\ SweepList(q) = r.rest
                /\ toasts' = toasts
                /\ \A f \in Files \ {r.file} :
                      /\ fileStatuses'[f] = fileStatuses[f]
                      /\ {t \in timers' : t.file = f} = LiveTimers(f)
                /\ IF r.ok /\ r.status = "processing"
                   THEN /\ fileStatuses'[r.file] =
                              [status |-> "processing", message |-> r.message,
                               error |-> r.error, startTime |-> now]
                        /\ \E t \in timers' :
                              /\ {u \in timers' : u.file = r.file} = {t}
                              /\ t.due = now + POLL_INTERVAL
                              /\ pollIntervalsRef'[r.file] = t.id
                   ELSE /\ fileStatuses' = fileStatuses
                        /\ timers' = timers
                        /\ pollIntervalsRef' = pollIntervalsRef]_vars

\* The sweep of a list of two unprocessed files has ended: the first file did
\* not answer processing and has no record and no timer, the second answered
\* processing and is tracked and polled.
C13_Witness ==
    /\ filesData.loaded
    /\ filesData.processed = {}
    /\ SweepRequestsOf(net) = {}
    /\ fileStatuses["f1"] = NoRec
    /\ LiveTimers("f1") = {}
    /\ pollLog["f1"] = <<>>
    /\ pollLog["f2"] # <<>>
    /\ pollLog["f2"][1] = "resumed"
    /\ fileStatuses["f2"].status = "processing"
    /\ LiveTimers("f2") # {}

\* C14: once the view has unmounted no interval timer of its poller is live.
C14_NoTimerAfterUnmount == ~mounted => timers = {}

\* C15: in every state of the poller and for every file, stopPolling changes
\* nothing when the file has no handle, a second stopPolling changes nothing
\* more than the first, and the first leaves the file no handle and no timer
\* and every other file its handle and its timers.
C15_StopPollingIdempotent ==
    \A f \in Files :
        LET once == stopPolling(TS, f)
            twice == stopPolling(once, f)
        IN  /\ pollIntervalsRef[f] = 0 => once = TS
            /\ twice = once
            /\ once.ref[f] = 0
            /\ {t \in once.live : t.file = f} = {}
            /\ \A g \in Files \ {f} :
                  /\ once.ref[g] = pollIntervalsRef[g]
                  /\ {t \in once.live : t.file = g} = LiveTimers(g)

\* Both files were polled; pollStatus has stopped the polling of f1 on a
\* terminal answer, and the timer of f2 is live.
C15_Witness ==
    /\ pollLog["f1"] # <<>>
    /\ pollLog["f1"][1] = "resumed"
    /\ Last(pollLog["f1"]) \in {"completed", "failed", "timeout"}
    /\ pollIntervalsRef["f1"] = 0
    /\ LiveTimers("f1") = {}
    /\ LiveTimers("f2") # {}
    /\ pollIntervalsRef["f2"] # 0

\* Nothing is under way for the file: no request about it is in flight and it
\* has no live timer, so that its tracked record stays as it is.
Quiet(f) ==
    /\ LiveTimers(f) = {}
    /\ \A r \in BagToSet(net) : r.file # f

\* C16: when the last thing that happened to a file is a poll answer that was
\* applied, and nothing is under way for it any more, its tracked status is
\* the status the backend reported last, or the failure of the timeout.
C16_StaleIsTransient ==
    \A f \in Files :
        (/\ Quiet(f)
         /\ pollLog[f] # <<>>
         /\ Last(pollLog[f]) \in Statuses \cup {"timeout"})
        => \/ fileStatuses[f].status = srv[f]
           \/ /\ fileStatuses[f].status = "failed"
              /\ fileStatuses[f].error = TimeoutText

\* C17: a handleSubmit whose argument and whose input are both empty after
\* trimming shows an alert (the one about the knowledge base when no document
\* is processed, else the one about the question) and does nothing else: no
\* request is sent, no session is created, and the roster, the active session,
\* the messages and the input stay as they are.
C17_EmptyQuestionNoCall ==
    [][(\/ SubmitTyped /\ Trim(chat.question) = <<>>
        \/ \E r \in BagToSet(chatNet) :
              DeferredFire(r) /\ Trim(r.text) = <<>> /\ Trim(r.question) = <<>>)
       => /\ alert' \in {NoDocsAlert, EmptyAlert}
          /\ (alert' = NoDocsAlert) = (chat.processedFiles = 0)
          /\ ChatRequests(chatNet') = ChatRequests(chatNet)
          /\ BagCardinality(chatNet') <= BagCardinality(chatNet)
          /\ srvRoster' = srvRoster
          /\ srvMsgs' = srvMsgs
          /\ sessions' = sessions
          /\ activeSessionId' = activeSessionId
          /\ chatKey' = chatKey
          /\ chat' = chat]_vars

\* A submit of an input that holds white space only was refused.
C17_Witness ==
    /\ alert = EmptyAlert
    /\ chat.question = <<Blank>>
    /\ chat.processedFiles >= 1
    /\ userSteps < MaxUserSteps

\* The chat requests a step has sent.
NewChatRequests ==
    {q \in ChatRequests(chatNet') : CopiesIn(q, chatNet') > CopiesIn(q, chatNet)}

\* A handleSubmit finds a processed document, a question and no session: sid
\* is the sessionId of its closure, n the number of its processed files.
CreatesOnDemand(question_p, question, sid, n) ==
    handleSubmitStep(n, question_p, question, sid) = "create"

\* C18: a handleSubmit that passes validation and finds no session sends the
\* creation of a session and nothing else, and appends no message; when the
\* creation fails the step shows the alert about the session, sends nothing,
\* and leaves the instance, its messages, the roster and the active session
\* as they are; when it succeeds the step posts the question to the new
\* session, which is first in the roster and active.
C18_CreateOnDemand ==
    [][/\ (\/ SubmitTyped /\ CreatesOnDemand(<<>>, chat.question, activeSessionId,
                                             chat.processedFiles)
           \/ \E r \in BagToSet(chatNet) :
                 DeferredFire(r) /\ CreatesOnDemand(r.text, r.question, r.sessionId,
                                                    r.processedFiles))
          => /\ \E q \in NewChatRequests : NewChatRequests = {q} /\ q.kind = "create"
             /\ chat'.messages = chat.messages
             /\ srvMsgs' = srvMsgs
             /\ alert' = ""
       /\ \A r \in BagToSet(chatNet) :
             (CreateResponse(r) /\ ~r.ok)
             => /\ alert' = CreateFailedAlert
                /\ NewChatRequests = {}
                /\ chatNet' = Receive(chatNet, r)
                /\ chat' = chat
                /\ sessions' = sessions
                /\ activeSessionId' = activeSessionId
                /\ chatKey' = chatKey
                /\ srvMsgs' = srvMsgs
                /\ srvRoster' = srvRoster
       /\ \A r \in BagToSet(chatNet) :
             (CreateResponse(r) /\ r.ok)
             => /\ \E q \in NewChatRequests :
                      q.kind = "send" /\ q.target = r.target /\ q.text = r.text
                /\ sessions' = <<r.target>> \o sessions
                /\ activeSessionId' = r.target]_vars

\* The typed question found no session, and the creation of one has failed:
\* the alert is shown, nothing was appended or posted, nothing is selected.
C18_Witness ==
    /\ alert = CreateFailedAlert
    /\ chat.messages = <<>>
    /\ Trim(chat.question) # <<>>
    /\ chatNet = EmptyBag
    /\ sessions = <<>>
    /\ activeSessionId = 0
    /\ srvMsgs = [i \in SessionIds |-> <<>>]

\* A handleSubmit passes validation with a session in its closure.
SendsInSession(question_p, question, sid, n) ==
    handleSubmitStep(n, question_p, question, sid) = "send"

\* C19: a handleSubmit that passes validation with a session shows, in the
\* step that posts the question, the transcript with the user's message
\* appended and the input cleared, and posts exactly the question to that
\* session; the step that applies the answer of such a post appends the one
\* assistant message of the answer to the transcript, directly after the
\* user's message.
C19_OptimisticThenReply ==
    [][/\ (SubmitTyped /\ SendsInSession(<<>>, chat.question, activeSessionId,
                                         chat.processedFiles))
          => /\ chat'.messages = Append(chat.messages, UserMsg(Trim(chat.question)))
             /\ chat'.question = <<>>
             /\ \E q \in NewChatRequests :
                   /\ NewChatRequests = {q}
                   /\ q.kind = "send"
                   /\ q.target = activeSessionId
                   /\ q.text = Trim(chat.question)
       /\ \A r \in BagToSet(chatNet) :
             (DeferredFire(r) /\ SendsInSession(r.text, r.question, r.sessionId,
                                                r.processedFiles))
             => /\ chat'.messages = Append(chat.messages, UserMsg(Trim(r.text)))
                /\ chat'.question = <<>>
                /\ \E q \in NewChatRequests :
                      /\ NewChatRequests = {q}
                      /\ q.kind = "send"
                      /\ q.target = r.sessionId
                      /\ q.text = Trim(r.text)
       /\ \A r \in BagToSet(chatNet) :
             (SendResponse(r) /\ r.ok /\ ~r.onDemand)
             => /\ chat'.messages = Append(chat.messages, ReplyMsg)
                /\ chat.messages # <<>>
                /\ Last(chat.messages) = UserMsg(r.text)]_vars

\* C20: the step that applies the answer of loadSessionMessages to the
\* instance that sent it shows, for a transcript, exactly the messages of the
\* answer, one for one and in their order, each with the content and the side
\* of its message, and nothing of what was shown before; for a failure it
\* shows no message; either way the instance is not loading messages any more.
C20_LoadHistoryReplaces ==
    [][\A r \in BagToSet(chatNet) :
          (HistoryResponse(r) /\ r.inst = chat.key)
          => /\ ~chat'.isLoadingMessages
             /\ IF r.ok
                THEN /\ Len(chat'.messages) = Len(r.msgs)
                     /\ \A i \in DOMAIN r.msgs :
                           /\ chat'.messages[i].message = r.msgs[i].content
                           /\ chat'.messages[i].is_user_message = r.msgs[i].is_user_message
                     /\ ServerTranscript(chat'.messages) = r.msgs
                ELSE chat'.messages = <<>>]_vars

\* A transcript was shown (the user's message of a post that is still in
\* flight) while the stored transcript of the session was loading; the load
\* has failed and no message is shown.
C20_Witness ==
    /\ activeSessionId = 1
    /\ srvMsgs[1] # <<>>
    /\ chat.messages = <<>>
    /\ ~chat.isLoadingMessages
    /\ \E q \in BagToSet(chatNet) :
          q.kind = "send" /\ q.inst = chat.key /\ ~q.onDemand /\ q.target = 1
    /\ \A q \in BagToSet(chatNet) : q.kind # "history"

(***************************************************************************)
(* Properties of the session roster                                        *)
(***************************************************************************)
\* C21: refresh never changes an existing active selection: when the answer
\* of a roster request is applied while a session is active (also one created
\* or switched to while the request was in flight), the active session id
\* stays as it is.
C21_RefreshKeepsSelection ==
    [][\A r \in BagToSet(chatNet) :
          SessionsResponse(r) /\ activeSessionId # 0
              => activeSessionId' = activeSessionId]_vars

\* A session the backend listed when the page was entered.
Existing(id) == id # 0 /\ IsPrefix(OldTranscript, srvMsgs[id])

\* C22: the page being entered with a deferred question, no roster answer
\* makes a session that existed before active, whenever it is applied, and
\* the question is never posted to such a session.
C22_DeferredGetsNewSession ==
    /\ [][\A r \in BagToSet(chatNet) :
             SessionsResponse(r)
                 => activeSessionId' = activeSessionId \/ ~Existing(activeSessionId')]_vars
    /\ [](\A q \in BagToSet(chatNet) : q.kind = "send" => ~Existing(q.target))

\* C23: when the answer of a creation is applied, on success the session the
\* backend has created, and no other change, is at the head of the roster, it
\* is the active session, and its id is the one the caller receives (the
\* waiting handleSubmit posts its question to it); on failure the caller
\* receives no id (it posts nothing) and the roster and the active session are
\* as before.
C23_CreatePrependsSelectsReturns ==
    [][\A r \in BagToSet(chatNet) :
          CreateResponse(r)
              => IF r.ok
                 THEN /\ r.target \in Ids(srvRoster) \ Ids(sessions)
                      /\ Head(sessions') = r.target
                      /\ Tail(sessions') = sessions
                      /\ activeSessionId' = r.target
                      /\ \E q \in NewChatRequests : q.kind = "send" /\ q.target = r.target
                      /\ \A q \in NewChatRequests : q.kind = "send" => q.target = r.target
                 ELSE /\ sessions' = sessions
                      /\ activeSessionId' = activeSessionId
                      /\ \A q \in NewChatRequests : q.kind # "send"]_vars

\* A session was created while the roster listed another one: the new session
\* is first, active, and the question is being posted to it.
C23_Witness ==
    /\ sessions = <<2, 1>>
    /\ activeSessionId = 2
    /\ \E q \in BagToSet(chatNet) : q.kind = "send" /\ q.target = 2 /\ q.onDemand

\* The first entry of the roster s, or none.
FirstOrNone(s) == IF s = <<>> THEN 0 ELSE Head(s)

\* C24: when the answer of a successful delete(id) is applied, id is no
\* longer in the roster, and the active session is as the claim says for id
\* having been active or not, "active" being read either when the delete was
\* requested or when its answer is applied: had id been active, the active
\* session is the first entry of the roster after the removal or none; had it
\* not, the active session is unchanged.
C24_DeleteReselects ==
    [][\A r \in BagToSet(chatNet) :
          DeleteResponse(r) /\ r.ok
              => /\ r.target \notin Ids(sessions')
                 /\ \E wasActive \in {r.sessionId = r.target, activeSessionId = r.target} :
                       activeSessionId' = IF wasActive THEN FirstOrNone(sessions')
                                          ELSE activeSessionId]_vars

\* The history requests that this step has sent.
NewHistoryRequests == {q \in NewChatRequests : q.kind = "history"}

\* C25: a click on the entry of the active session changes neither the
\* active id, the roster, the key of the chat view nor the view, and sends
\* nothing; a click on another entry makes that session active and mounts a
\* fresh chat view under a new key, which requests the history of that
\* session and of no other.
C25_SwitchSession ==
    [][\A id \in SessionIds :
          switchSession(id)
              => IF id = activeSessionId
                 THEN /\ UNCHANGED <<activeSessionId, sessions, chatKey, chat, chatNet>>
                      /\ NewChatRequests = {}
                 ELSE /\ activeSessionId' = id
                      /\ sessions' = sessions
                      /\ chatKey' # chatKey
                      /\ chat'.key = chatKey'
                      /\ chat'.messages = <<>>
                      /\ chat'.isLoadingMessages
                      /\ \E q \in NewHistoryRequests :
                            /\ NewHistoryRequests = {q}
                            /\ q.target = id
                            /\ q.inst = chatKey']_vars

\* The user has switched from the session the roster answer selected to the
\* other one: its history is being loaded by a fresh view.
C25_Witness ==
    /\ sessions = <<2, 1>>
    /\ activeSessionId = 1
    /\ chatKey = 1
    /\ chat.key = 1
    /\ chat.isLoadingMessages
    /\ \E q \in BagToSet(chatNet) : q.kind = "history" /\ q.target = 1 /\ q.inst = 1

\* The backend was observed processing f in the present tracking session: the
\* sweep found it processing, or a poll answer processing was applied, and
\* since then the poller has only sent status requests for f and applied
\* answers pending or processing.
ObservedProcessingInSession(f) ==
    \E i \in DOMAIN pollLog[f] :
        /\ pollLog[f][i] \in {"resumed", "processing"}
        /\ \A j \in (i + 1)..Len(pollLog[f]) :
              pollLog[f][j] \in {"sent", "pending", "processing"}

\* C26: whenever a poll answer completed is applied, the timeout not being
\* exceeded, to a file that was observed processing earlier in the same
\* tracking session, the polling of the file stops, the file list is
\* requested again and the success notification is shown once, whatever was
\* observed in between.
C26_CompletedAfterProcessingNotifies ==
    [][\A r \in BagToSet(net) :
          (/\ PollResponse(r)
           /\ pollLog'[r.file] = Append(pollLog[r.file], "completed")
           /\ ObservedProcessingInSession(r.file))
              => /\ LiveTimers(r.file)' = {}
                 /\ pollIntervalsRef'[r.file] = 0
                 /\ HasFilesRequest(net')
                 /\ toasts'[r.file]["Complete"] = toasts[r.file]["Complete"] + 1]_vars

\* C27: when a poll answer failed is applied, the timeout not being
\* exceeded, to a file whose tracked status is processing, the timer of the
\* file is cancelled, the tracked status becomes failed with the error of the
\* answer, exactly one notification is shown, the one with the server's error
\* when the answer carries one and the one with the generic text otherwise,
\* and the file list is not requested.
C27_FailedWhileProcessing ==
    [][\A r \in BagToSet(net) :
          (/\ PollResponse(r)
           /\ pollLog'[r.file] = Append(pollLog[r.file], "failed")
           /\ fileStatuses[r.file].status = "processing")
              => /\ LiveTimers(r.file)' = {}
                 /\ pollIntervalsRef'[r.file] = 0
                 /\ fileStatuses'[r.file].status = "failed"
                 /\ fileStatuses'[r.file].error = r.error
                 /\ toasts' = Toast(toasts, r.file, IF r.error # Undef
                                                    THEN "FailedServerError"
                                                    ELSE "FailedFallback")
                 /\ net' = Receive(net, r)]_vars

\* Both notifications have been seen for failed poll answers: one answer
\* carried the server's error, the other none.
C27_Witness ==
    \E f \in Files :
        /\ toasts[f]["FailedServerError"] = 1
        /\ toasts[f]["FailedFallback"] = 1
        /\ fileStatuses[f].status = "failed"
        /\ Last(pollLog[f]) = "failed"
        /\ LiveTimers(f) = {}

\* C28: once a file is successfully deleted in the dashboard it has no live
\* timer and no tracked status record, then and ever after, whatever answers
\* about the file were in flight when it was deleted (processing not being
\* requested for it again afterwards).
C28_DeletedStaysUntracked ==
    \A f \in Files :
        (\E i \in DOMAIN pollLog[f] :
            /\ pollLog[f][i] = "deleted"
            /\ \A j \in (i + 1)..Len(pollLog[f]) : pollLog[f][j] # "process")
            => LiveTimers(f) = {} /\ fileStatuses[f] = NoRec

\* The file f is being tracked: its record waits for a terminal status.
Tracked(f) ==
    /\ fileStatuses[f].status \in {"pending", "processing"}
    /\ fileStatuses[f].startTime # 0

\* C29: while a file is tracked, no step but a new request to process it
\* changes the startTime of its record: a step that leaves the file tracked
\* leaves its startTime as it was set when the tracking began.
C29_StartTimeFixed ==
    [][\A f \in Files :
          (/\ Tracked(f)
           /\ fileStatuses'[f].status \in {"pending", "processing"}
           /\ ~ProcessFile(f))
              => fileStatuses'[f].startTime = fileStatuses[f].startTime]_vars

\* The timers of the deferred question that this step has scheduled.
NewDeferred ==
    {q \in BagToSet(chatNet') :
        q.kind = "deferred" /\ CopiesIn(q, chatNet') > CopiesIn(q, chatNet)}

\* C30: the question stored under 'pendingQuestion' is removed exactly when
\* it is consumed: a step that schedules the submission of a deferred
\* question leaves the key absent, and a step that removes a stored question
\* schedules the submission of that very question.
C30_StoredQuestionConsumed ==
    [][/\ NewDeferred # {} => pendingQuestion' = <<>>
       /\ (pendingQuestion # <<>> /\ pendingQuestion' = <<>>)
              => \E q \in NewDeferred : q.text = pendingQuestion]_vars

(***************************************************************************)
(* Properties of the chat controller and of the poller, continued          *)
(***************************************************************************)
\* The posts of a question that the instance k has in flight.
SendsOf(bag, k) == {q \in BagToSet(bag) : q.kind = "send" /\ q.inst = k}

\* C31: a question is posted only from the ready state: the step in which a
\* controller posts a question finds the controller neither loading the
\* history of its session nor waiting for the answer of an earlier post, so a
\* controller never has two posts in flight.
C31_SendOnlyWhenReady ==
    /\ [][\A q \in NewChatRequests :
             (q.kind = "send" /\ q.inst = chat.key)
                 => /\ ~chat.isLoadingMessages
                    /\ ~chat.isLoading
                    /\ SendsOf(chatNet, q.inst) = {}]_vars
    /\ [](\A q \in BagToSet(chatNet) : q.kind = "send" => CopiesIn(q, chatNet) = 1)

\* A message that handleSubmit has appended for a question of the user: the
\* transcripts the backend held before hold no such message.
Optimistic(m) ==
    m.is_user_message /\ \A i \in DOMAIN OldTranscript : OldTranscript[i] # m

\* C32: an optimistic user message, once in the transcript, is in the
\* transcript after every step that leaves the same session displayed by the
\* same view, whichever of the answers in flight the step applies.
C32_OptimisticMessageStays ==
    [][(chat'.key = chat.key /\ activeSessionId' = activeSessionId)
          => \A i \in DOMAIN chat.messages :
                Optimistic(chat.messages[i])
                    => \E j \in DOMAIN chat'.messages :
                          chat'.messages[j] = chat.messages[i]]_vars

\* C33: the answer of a post to a session, reply or error message, is
\* appended to the displayed transcript only while that session is the active
\* one, whatever happened while the post was in flight.
C33_ReplyOnlyInItsSession ==
    [][\A r \in BagToSet(chatNet) :
          (SendResponse(r) /\ chat'.messages # chat.messages)
              => r.target = activeSessionId]_vars

\* C34: the active session id is none or the id of a session of the roster,
\* in every state the page reaches.
C34_ActiveInRoster == activeSessionId = 0 \/ activeSessionId \in Ids(sessions)

\* No request about the file is in flight: none that names it and no sweep
\* that still has it to ask about.
NoRequestFor(f) ==
    \A r \in BagToSet(net) :
        /\ r.file # f
        /\ \A i \in 1..Len(r.rest) : r.rest[i] # f

\* C35: in a mounted view, whenever no request is in flight for a file, a
\* tracked status of processing implies that the file has a live poll timer.
C35_ProcessingIsPolled ==
    \A f \in Files :
        (/\ mounted
         /\ NoRequestFor(f)
         /\ fileStatuses[f] # NoRec
         /\ fileStatuses[f].status = "processing")
        => LiveTimers(f) # {}

\* C36: when the request to the process endpoint fails, the tracked status of
\* the file becomes failed with the detail of the server when there is one and
\* the fallback text otherwise, exactly one error notification is shown, no
\* timer is started and no request is sent.
C36_ProcessRequestFails ==
    [][\A r \in BagToSet(net) :
          (ProcessResponse(r) /\ ~r.ok)
              => /\ mounted =>
                     /\ fileStatuses'[r.file].status = "failed"
                     /\ fileStatuses'[r.file].error =
                            (IF r.error # Undef THEN r.error
                             ELSE "Failed to start processing")
                 /\ toasts' = Toast(toasts, r.file,
                                    IF r.error # Undef THEN "ProcessingFailedDetail"
                                    ELSE "ProcessingFailedFallback")
                 /\ timers' = timers
                 /\ pollIntervalsRef' = pollIntervalsRef
                 /\ net' = Receive(net, r)]_vars

\* Two process requests of f1 have failed, one with a detail and one without;
\* the record says failed and no timer runs.
C36_Witness ==
    /\ mounted
    /\ Last(<<"none">> \o pollLog["f1"]) = "rejected"
    /\ fileStatuses["f1"] # NoRec
    /\ fileStatuses["f1"].status = "failed"
    /\ toasts["f1"]["ProcessingFailedDetail"] = 1
    /\ toasts["f1"]["ProcessingFailedFallback"] = 1
    /\ LiveTimers("f1") = {}

\* C37: when the process endpoint answers completed, the record becomes
\* completed with its startTime kept, the file list is fetched again, exactly
\* one success notification is shown, no timer is started and no status
\* request is sent; when it answers processing, started or pending, the record
\* becomes processing with its startTime kept, a timer is started for the
\* file and exactly one status request is sent.
C37_ProcessAnswer ==
    [][\A r \in BagToSet(net) :
          (ProcessResponse(r) /\ r.ok)
              => /\ r.status = "completed"
                     => /\ mounted =>
                            /\ fileStatuses'[r.file].status = "completed"
                            /\ fileStatuses'[r.file].startTime
                                   = fileStatuses[r.file].startTime
                        /\ toasts' = Toast(toasts, r.file, "CompleteDirect")
                        /\ timers' = timers
                        /\ pollIntervalsRef' = pollIntervalsRef
                        /\ \E x \in FilesExchange : net' = Send(Receive(net, r), x[2])
                 /\ r.status \in {"processing", "started", "pending"}
                     => /\ mounted =>
                            /\ fileStatuses'[r.file].status = "processing"
                            /\ fileStatuses'[r.file].startTime
                                   = fileStatuses[r.file].startTime
                        /\ toasts' = toasts
                        /\ \E t \in timers' :
                               /\ t.file = r.file
                               /\ t.id = pollIntervalsRef'[r.file]
                               /\ t.due = now + POLL_INTERVAL
                               /\ timers' \ timers \subseteq {t}
                        /\ \E x \in StatusExchange("poll", r.file, <<>>) :
                               net' = Send(Receive(net, r), x[2])]_vars

\* A process request of f1 was answered with a non-terminal status, which
\* started the polling; a later one was answered completed directly: the
\* record is completed with the startTime of the second click, the
\* notification was shown once, and no timer is left.
C37_Witness ==
    /\ mounted
    /\ \E i \in 1..Len(pollLog["f1"]) : pollLog["f1"][i] = "started"
    /\ Last(<<"none">> \o pollLog["f1"]) = "direct"
    /\ fileStatuses["f1"].status = "completed"
    /\ fileStatuses["f1"].startTime >= T0
    /\ toasts["f1"]["CompleteDirect"] = 1
    /\ LiveTimers("f1") = {}
    /\ HasFilesRequest(net)

\* C38: while only one process request of a file was made and resume-on-load
\* never started polling it, the success notification of pollStatus was shown
\* at most once for the file.
C38_SuccessNotifiedOnce ==
    \A f \in Files :
        (/\ Count(pollLog[f], {"process"}) = 1
         /\ Count(pollLog[f], {"resumed"}) = 0)
        => toasts[f]["Complete"] <= 1

============================================================================
